---- MODULE Spec2Model ----
(***************************************************************************)
(* Model of the transaction analytics dashboard.                           *)
(*                                                                         *)
(* The shell (App) parses the embedded CSV text into a list of Transaction *)
(* records and hands that list to every analysis view; each view folds the *)
(* list into grouped statistics.  The state is the CSV text, the parsed    *)
(* list, the output of the view that was computed last and how far App's   *)
(* render pass has come.                                                   *)
(*                                                                         *)
(* Two kinds of specification.  Spec and LiveSpec are the program: App     *)
(* parses the text and React renders the nine views of App's JSX in        *)
(* document order, one pass per state change, a view that throws ending    *)
(* the pass and unmounting the tree.  ViewSpec applies parseTransactions   *)
(* to every text and every exported view component, ProcessingTimeMetrics  *)
(* included, to the list on its own, as the functions of their props they  *)
(* are: what is stated of a view is checked there for every list, also     *)
(* for the lists on which an earlier view of App's pass throws.            *)
(*                                                                         *)
(* Values.  A JavaScript string is a sequence of one-character strings;    *)
(* `undefined' and `null' in a string position are the one-element         *)
(* sequences Undefined and Null (no string has an element longer than one  *)
(* character).  A JavaScript number is a record [k, s, h, l, e]: for       *)
(* k = "fin" the IEEE 754 double s * (h * 2^28 + l) * 2^e, for k = "nan"   *)
(* NaN, for k = "inf" the infinity of sign s; k = "null" and k = "undef"   *)
(* stand for null and undefined in a number position.  Arithmetic rounds   *)
(* to the nearest double, ties to even, as the engine does; -0 is the      *)
(* number of sign -1 with h = l = 0.                                       *)
(* A thrown exception is the output [threw |-> TRUE]; a Date that a call   *)
(* failed to make, because the call threw, has threw = TRUE.               *)
(***************************************************************************)
EXTENDS Integers, Sequences, FiniteSets, TLC

VARIABLES rawTransactionData, transactions, rendered, view, out,
          isLoading, dateRange, timeouts, pass

vars == <<rawTransactionData, transactions, rendered, view, out,
          isLoading, dateRange, timeouts, pass>>

(***************************************************************************)
(* Bounds of the model.                                                    *)
(***************************************************************************)
\* data lines of a text of dated, amount or mixed rows
MaxRows == 2
\* data lines of a text of latency rows
MaxLatencyRows == 2
\* timers of handleRefresh pending at once
MaxTimeouts == 2
\* data lines of a text of hour rows
MaxHourRows == 3
\* data lines of a text of size rows
MaxSizeRows == 2

(***************************************************************************)
(* Strings.                                                                *)
(***************************************************************************)
Undefined == <<"undefined">>
Null == <<"null">>

NL == "\n"

WhiteSpace == {" ", "\t", "\r", NL}

IsString(s) == s # Undefined /\ s # Null

RECURSIVE TrimStart(_)
TrimStart(s) ==
  IF s # <<>> /\ Head(s) \in WhiteSpace THEN TrimStart(Tail(s)) ELSE s

RECURSIVE TrimEnd(_)
TrimEnd(s) ==
  IF s # <<>> /\ s[Len(s)] \in WhiteSpace
  THEN TrimEnd(SubSeq(s, 1, Len(s) - 1))
  ELSE s

\* String.prototype.trim
Trim(s) == TrimEnd(TrimStart(s))

\* Index of the first occurrence of character c in s at or after i, 0 if none.
IndexOf(s, c, i) ==
  IF \E j \in i..Len(s) : s[j] = c
  THEN CHOOSE j \in i..Len(s) : s[j] = c /\ \A k \in i..(j - 1) : s[k] # c
  ELSE 0

\* String.prototype.split(c) for a one-character separator: k separators
\* give k + 1 pieces, the empty string gives one empty piece.
RECURSIVE Split(_, _)
Split(s, c) ==
  LET i == IndexOf(s, c, 1) IN
  IF i = 0 THEN <<s>>
  ELSE <<SubSeq(s, 1, i - 1)>> \o Split(SubSeq(s, i + 1, Len(s)), c)

\* Array.prototype.slice(1)
Slice1(a) == IF Len(a) <= 1 THEN <<>> ELSE Tail(a)

\* Array destructuring: a position past the end of the array is undefined.
At(a, i) == IF i <= Len(a) THEN a[i] ELSE Undefined

\* Truthiness of a string or undefined/null.
TruthyStr(s) == IsString(s) /\ s # <<>>

\* The characters of the texts in increasing UTF-16 code unit order: tab, line
\* feed, carriage return and the printable ASCII characters but the backquote.
Chars ==
  <<"\t", NL, "\r",
    " ", "!", "\"", "#", "$", "%", "&", "'", "(", ")", "*", "+", ",", "-", ".", "/",
    "0", "1", "2", "3", "4", "5", "6", "7", "8", "9",
    ":", ";", "<", "=", ">", "?", "@",
    "A", "B", "C", "D", "E", "F", "G", "H", "I", "J", "K", "L", "M",
    "N", "O", "P", "Q", "R", "S", "T", "U", "V", "W", "X", "Y", "Z",
    "[", "\\", "]", "^", "_",
    "a", "b", "c", "d", "e", "f", "g", "h", "i", "j", "k", "l", "m",
    "n", "o", "p", "q", "r", "s", "t", "u", "v", "w", "x", "y", "z",
    "{", "|", "}", "~">>

\* Rank of a character in UTF-16 code unit order (the order of the default
\* Array.prototype.sort and, on the labels compared here, of localeCompare).
Rank == [c \in {Chars[i] : i \in 1..Len(Chars)} |->
           CHOOSE i \in 1..Len(Chars) : Chars[i] = c]

Ord(c) == Rank[c]

\* s < t in code unit order.
RECURSIVE StrLess(_, _)
StrLess(s, t) ==
  IF t = <<>> THEN FALSE
  ELSE IF s = <<>> THEN TRUE
  ELSE IF Head(s) = Head(t) THEN StrLess(Tail(s), Tail(t))
  ELSE Ord(Head(s)) < Ord(Head(t))

Upper ==
  [c \in {"a","b","c","d","e","f","g","h","i","j","k","l","m",
          "n","o","p","q","r","s","t","u","v","w","x","y","z"} |->
     Chars[Ord(c) - (Ord("a") - Ord("A"))]]

\* String.prototype.toUpperCase
ToUpperCase(s) ==
  [i \in 1..Len(s) |-> IF s[i] \in DOMAIN Upper THEN Upper[s[i]] ELSE s[i]]

\* The array with the elements of f, each of them computed once, when the
\* array is made (map, filter, slice and sort hand out arrays of values).
ArrayOf(f) == f \o <<>>

(***************************************************************************)
(* Numbers (IEEE 754 binary64, results rounded to nearest, ties to even).  *)
(* Integers wider than 31 bits are kept in two forms.  A wide integer is a *)
(* record [h, l] of value h * 2^28 + l with 0 <= l < 2^28; a big integer   *)
(* is the sequence of its digits in base 2^14, the lowest first.           *)
(***************************************************************************)
AbsI(i) == IF i < 0 THEN -i ELSE i

MaxI(a, b) == IF a >= b THEN a ELSE b

\* The number of binary digits of each of 1 .. 63.
BitLens ==
  <<1, 2, 2, 3, 3, 3, 3, 4, 4, 4, 4, 4, 4, 4, 4,
    5, 5, 5, 5, 5, 5, 5, 5, 5, 5, 5, 5, 5, 5, 5, 5,
    6, 6, 6, 6, 6, 6, 6, 6, 6, 6, 6, 6, 6, 6, 6, 6,
    6, 6, 6, 6, 6, 6, 6, 6, 6, 6, 6, 6, 6, 6, 6, 6>>

\* A multiple b of 5 with 2^b <= n < 2^(b + 6), for 0 < n < 2^31.
BitBase(n) ==
  IF n >= 2^25 THEN 25
  ELSE IF n >= 2^20 THEN 20
  ELSE IF n >= 2^15 THEN 15
  ELSE IF n >= 2^10 THEN 10
  ELSE IF n >= 2^5 THEN 5
  ELSE 0

BitLenAbove(n, b) == b + BitLens[n \div 2^b]

\* The number of binary digits of n >= 0.
BitLen(n) == IF n = 0 THEN 0 ELSE BitLenAbove(n, BitBase(n))

\* The number of binary digits of the wide integer [h, l].
WideBits(h, l) == BitLen(IF h = 0 THEN l ELSE h) + (IF h = 0 THEN 0 ELSE 28)

\* floor(X / 2^d) of the wide integer X = [h, l], and whether bits were lost.
ShiftRight(h, l, d) ==
  IF d <= 0 THEN [h |-> h, l |-> l, lost |-> FALSE]
  ELSE IF d < 28
  THEN [h |-> h \div 2^d,
        l |-> l \div 2^d + (h % 2^d) * 2^(28 - d),
        lost |-> l % 2^d # 0]
  ELSE IF d < 59
  THEN [h |-> 0, l |-> h \div 2^(d - 28),
        lost |-> l # 0 \/ h % 2^(d - 28) # 0]
  ELSE [h |-> 0, l |-> 0, lost |-> h # 0 \/ l # 0]

\* X * 2^z for a wide integer X = [h, l] with X * 2^z < 2^59.
ShiftLeft(h, l, z) ==
  IF z = 0 THEN [h |-> h, l |-> l]
  ELSE IF z < 28
  THEN [h |-> h * 2^z + l \div 2^(28 - z),
        l |-> (l % 2^(28 - z)) * 2^z]
  ELSE [h |-> l * 2^(z - 28), l |-> 0]

\* The lost bits kept as a one in the lowest bit (a sticky bit).
Jam(w) == [h |-> w.h, l |-> IF w.lost /\ w.l % 2 = 0 THEN w.l + 1 ELSE w.l]

WideSum(a, b) ==
  [h |-> a.h + b.h + (a.l + b.l) \div 2^28, l |-> (a.l + b.l) % 2^28]

\* a - b for a >= b
WideDiff(a, b) ==
  [h |-> a.h - b.h + (a.l - b.l) \div 2^28, l |-> (a.l - b.l) % 2^28]

WideLess(a, b) == a.h < b.h \/ (a.h = b.h /\ a.l < b.l)

\* The columns ts of a sum of products with the carry c brought to digits
\* in base 2^14.
RECURSIVE Carried(_, _, _)
Carried(ts, i, c) ==
  IF i > Len(ts) THEN (IF c = 0 THEN <<>> ELSE <<c>>)
  ELSE <<(ts[i] + c) % 16384>> \o Carried(ts, i + 1, (ts[i] + c) \div 16384)

Limb(p, i) == IF i >= 1 /\ i <= Len(p) THEN p[i] ELSE 0

LimbsOf(h, l) == <<l % 16384, l \div 16384, h % 16384, h \div 16384>>

WideOf(n) ==
  [h |-> Limb(n, 3) + Limb(n, 4) * 16384, l |-> Limb(n, 1) + Limb(n, 2) * 16384]

\* The digits lo..hi of the big integer b * m + c, and the carry out of them.
RECURSIVE BigTimesRange(_, _, _, _, _)
BigTimesRange(b, m, c, lo, hi) ==
  IF lo > hi THEN [d |-> <<>>, c |-> c]
  ELSE IF lo = hi
  THEN [d |-> <<(b[lo] * m + c) % 16384>>, c |-> (b[lo] * m + c) \div 16384]
  ELSE LET lower == BigTimesRange(b, m, c, lo, (lo + hi) \div 2)
           upper == BigTimesRange(b, m, lower.c, (lo + hi) \div 2 + 1, hi)
       IN [d |-> lower.d \o upper.d, c |-> upper.c]

\* b * m + c for m <= 2^14 and c < 2^14
BigTimes(b, m, c) ==
  LET t == BigTimesRange(b, m, c, 1, Len(b))
  IN IF t.c = 0 THEN t.d ELSE Append(t.d, t.c)

\* The digits hi..lo of the quotient of a big integer b by m < 2^17, highest
\* first, from the remainder r of the digits above them, and the remainder.
RECURSIVE BigDivRange(_, _, _, _, _)
BigDivRange(b, m, r, lo, hi) ==
  IF lo > hi THEN [q |-> <<>>, r |-> r]
  ELSE IF lo = hi
  THEN [q |-> <<(r * 16384 + b[lo]) \div m>>, r |-> (r * 16384 + b[lo]) % m]
  ELSE LET upper == BigDivRange(b, m, r, (lo + hi) \div 2 + 1, hi)
           lower == BigDivRange(b, m, upper.r, lo, (lo + hi) \div 2)
       IN [q |-> upper.q \o lower.q, r |-> lower.r]

\* b without its highest digits that are 0
RECURSIVE BigTrim(_)
BigTrim(b) ==
  IF b # <<>> /\ b[Len(b)] = 0 THEN BigTrim(SubSeq(b, 1, Len(b) - 1)) ELSE b

\* floor(b / m) and b % m
BigDivSmall(b, m) ==
  LET t == BigDivRange(b, m, 0, 1, Len(b))
  IN [q |-> BigTrim([i \in 1..Len(b) |-> t.q[Len(b) + 1 - i]]), r |-> t.r]

\* A number is the record [k, s, h, l, e] with the sign s in {1, -1}.  When
\* k = "fin" it is s * (h * 2^28 + l) * 2^e.  An integer below 2^53 in
\* magnitude has e = 0; +0 and -0 are the two with h = l = 0.  Every other
\* finite number has a mantissa of 53 bits, 2^52 <= h * 2^28 + l < 2^53; a
\* subnormal number has e < -1074 and its low -1074 - e bits 0.  k = "nan"
\* is NaN, k = "inf" is s * Infinity, k = "null" and k = "undef" stand for
\* null and undefined in a number position.
WholeNumber(s, h, l) == [k |-> "fin", s |-> s, h |-> h, l |-> l, e |-> 0]

\* s * w * 2^e for a mantissa w of 53 bits, whose -e low bits are r.lost.
Integral(s, r, w, e) ==
  IF r.lost THEN [k |-> "fin", s |-> s, h |-> w.h, l |-> w.l, e |-> e]
  ELSE WholeNumber(s, r.h, r.l)

\* s * w * 2^e for a mantissa w of 53 bits.
Fin(s, w, e) ==
  IF e < 0 /\ e >= -52 THEN Integral(s, ShiftRight(w.h, w.l, -e), w, e)
  ELSE [k |-> "fin", s |-> s, h |-> w.h, l |-> w.l, e |-> e]

\* The number x # 0 with a mantissa of 53 bits.
Mantissa53(x, w, z) == [k |-> "fin", s |-> x.s, h |-> w.h, l |-> w.l, e |-> -z]
MantissaBy(x, z) == Mantissa53(x, ShiftLeft(x.h, x.l, z), z)
Normal(x) == IF x.e # 0 THEN x ELSE MantissaBy(x, 53 - WideBits(x.h, x.l))

\* +0 and -0
ZeroOf(s) == WholeNumber(s, 0, 0)
Zero == ZeroOf(1)
NaN == [k |-> "nan", s |-> 1, h |-> 0, l |-> 0, e |-> 0]
PosInf == [k |-> "inf", s |-> 1, h |-> 0, l |-> 0, e |-> 0]
NegInf == [k |-> "inf", s |-> -1, h |-> 0, l |-> 0, e |-> 0]
NullNum == [k |-> "null", s |-> 1, h |-> 0, l |-> 0, e |-> 0]
UndefNum == [k |-> "undef", s |-> 1, h |-> 0, l |-> 0, e |-> 0]

IsNaN(x) == x.k = "nan"

IsZero(x) == x.k = "fin" /\ x.h = 0 /\ x.l = 0

SignOf(x) == IF IsZero(x) THEN 0 ELSE x.s

Inf(s) == IF s > 0 THEN PosInf ELSE NegInf

\* X * 2^z, without a fraction
Moved(h, l, z) == IF z < 0 THEN ShiftRight(h, l, -z) ELSE ShiftLeft(h, l, z)

\* The number s * X * 2^e of a wide integer X = [h, l] < 2^54 that a double
\* of that exponent holds: Infinity when it is beyond the largest double.
Placed(s, h, l, e, z) ==
  IF z = 53 THEN ZeroOf(s)
  ELSE IF e - z > 971 THEN Inf(s)
  ELSE Fin(s, Moved(h, l, z), e - z)

Justified(s, h, l, e) == Placed(s, h, l, e, 53 - WideBits(h, l))

\* Whether m + quarters / 4 rounds up to the nearest integer, the even one
\* of two.
RoundsUp(m, quarters) == quarters = 3 \/ (quarters = 2 /\ m.l % 2 = 1)

\* s * (m + quarters / 4) * 2^e with the integer m rounded to the nearest.
Nearest(s, m, quarters, e) ==
  Justified(s,
            IF RoundsUp(m, quarters) /\ m.l + 1 = 2^28 THEN m.h + 1 ELSE m.h,
            IF RoundsUp(m, quarters) THEN (m.l + 1) % 2^28 ELSE m.l,
            e)

\* s * w * 2^e without the two low bits of the wide integer w, rounded; the
\* lowest bit of w is sticky.
Jammed(s, w, e) == Nearest(s, ShiftRight(w.h, w.l, 2), w.l % 4, e + 2)

\* X = [h, l] without its low k bits but two, the lower of the two sticky.
TwoMore(h, l, k) ==
  IF k >= 2 THEN Jam(ShiftRight(h, l, k - 2)) ELSE ShiftLeft(h, l, 2 - k)

\* s * X * 2^e without the low k >= 0 bits of X = [h, l], rounded.
RoundedBy(s, h, l, e, k) == Jammed(s, TwoMore(h, l, k), e + k - 2)

\* The double nearest to s * X * 2^e for a wide integer X = [h, l] < 2^59
\* whose lowest bit is sticky: 53 bits are kept, fewer below 2^-1022.
Rounded(s, h, l, e) ==
  RoundedBy(s, h, l, e, MaxI(0, MaxI(WideBits(h, l) - 53, -1074 - e)))

RoundedWide(s, w, e) == Rounded(s, w.h, w.l, e)

\* The number of the integer i.
\* s * n for an integer n >= 0
SignedWhole(s, n) == WholeNumber(s, n \div 2^28, n % 2^28)

Int2Num(i) == SignedWhole(IF i < 0 THEN -1 ELSE 1, AbsI(i))

\* ToNumber on the operands of an arithmetic operator.
ToNumber(x) ==
  IF x.k = "null" THEN Zero ELSE IF x.k = "undef" THEN NaN ELSE x

\* Truthiness of a number, null or undefined: 0, NaN, null, undefined are falsy.
Truthy(x) == (x.k = "fin" /\ (x.h # 0 \/ x.l # 0)) \/ x.k = "inf"

\* x || y
Or(x, y) == IF Truthy(x) THEN x ELSE y

\* -x
Neg(x) == IF x.k \in {"fin", "inf"} THEN [x EXCEPT !.s = -@] ELSE x

\* x === y
StrictEq(x, y) == x.k # "nan" /\ (x = y \/ (IsZero(x) /\ IsZero(y)))

\* The mantissa of the operand of lower exponent, d below the other, with
\* three more bits, the lowest of them sticky.
Aligned(h, l, d) ==
  IF d < 3 THEN ShiftLeft(h, l, 3 - d) ELSE Jam(ShiftRight(h, l, d - 3))

\* (s * a + t * b) * 2^e of the wide integers a and b; a sum that cancels
\* is +0.
Combined(s, a, t, b, e) ==
  IF s # t /\ ~WideLess(a, b) /\ ~WideLess(b, a) THEN Zero
  ELSE RoundedWide(IF WideLess(a, b) THEN t ELSE s,
                   IF s = t THEN WideSum(a, b)
                   ELSE IF WideLess(a, b) THEN WideDiff(b, a)
                   ELSE WideDiff(a, b),
                   e)

\* x + y for x and y with mantissas of 53 bits, x.e >= y.e
AddAligned(x, y) ==
  Combined(x.s, ShiftLeft(x.h, x.l, 3), y.s, Aligned(y.h, y.l, x.e - y.e),
           x.e - 3)

AddNormal(x, y) == AddAligned(IF x.e >= y.e THEN x ELSE y, IF x.e >= y.e THEN y ELSE x)

WholeOf(s, w) == WholeNumber(s, w.h, w.l)

\* x + y for integers x and y other than 0 with |x + y| < 2^53
AddWhole(x, y) ==
  IF x.s = y.s THEN WholeOf(x.s, WideSum(x, y))
  ELSE IF WideLess(x, y) THEN WholeOf(y.s, WideDiff(y, x))
  ELSE IF WideLess(y, x) THEN WholeOf(x.s, WideDiff(x, y))
  ELSE Zero

\* x + y for finite x and y other than 0
AddFinite(x, y) ==
  IF x.e = 0 /\ y.e = 0 /\ (x.s # y.s \/ x.h + y.h < 2^25 - 1) THEN AddWhole(x, y)
  ELSE AddNormal(Normal(x), Normal(y))

AddN(x, y) ==
  IF IsNaN(x) \/ IsNaN(y) THEN NaN
  ELSE IF x.k = "inf" /\ y.k = "inf" THEN (IF x.s = y.s THEN x ELSE NaN)
  ELSE IF x.k = "inf" THEN x
  ELSE IF y.k = "inf" THEN y
  ELSE IF IsZero(x) /\ IsZero(y) THEN (IF x.s = y.s THEN x ELSE Zero)
  ELSE IF IsZero(x) THEN y
  ELSE IF IsZero(y) THEN x
  ELSE AddFinite(x, y)

Add(a, b) == AddN(ToNumber(a), ToNumber(b))

Sub(a, b) == Add(a, Neg(ToNumber(b)))

\* The columns of the product of two integers of four digits in base 2^14.
Columns(a, b) ==
  <<a[1] * b[1],
    a[1] * b[2] + a[2] * b[1],
    a[1] * b[3] + a[2] * b[2] + a[3] * b[1],
    a[1] * b[4] + a[2] * b[3] + a[3] * b[2] + a[4] * b[1],
    a[2] * b[4] + a[3] * b[3] + a[4] * b[2],
    a[3] * b[4] + a[4] * b[3],
    a[4] * b[4]>>

\* floor(P / 2^49) of the product P of two mantissas, digits p.
TopOfProduct(p) ==
  [h |-> p[6] \div 128 + p[7] * 128 + Limb(p, 8) * 2097152,
   l |-> p[4] \div 128 + p[5] * 128 + (p[6] % 128) * 2097152,
   lost |-> p[1] # 0 \/ p[2] # 0 \/ p[3] # 0 \/ p[4] % 128 # 0]

\* x * y for x and y with mantissas of 53 bits
MulNormal(x, y) ==
  RoundedWide(x.s * y.s,
              Jam(TopOfProduct(Carried(Columns(LimbsOf(x.h, x.l),
                                               LimbsOf(y.h, y.l)), 1, 0))),
              x.e + y.e + 49)

\* s * (hi * 2^28 + mid * 2^14 + lo)
WholeProduct(s, hi, mid, lo) ==
  WholeOf(s, WideSum([h |-> hi + mid \div 16384, l |-> (mid % 16384) * 16384],
                          [h |-> 0, l |-> lo]))

\* x * y for integers x and y below 2^28 in magnitude, one below 2^25
MulWhole(x, y) ==
  WholeProduct(x.s * y.s,
               (x.l \div 16384) * (y.l \div 16384),
               (x.l \div 16384) * (y.l % 16384) + (x.l % 16384) * (y.l \div 16384),
               (x.l % 16384) * (y.l % 16384))

\* x * y for finite x and y other than 0
MulFinite(x, y) ==
  IF x.e = 0 /\ y.e = 0 /\ x.h = 0 /\ y.h = 0 /\ (x.l < 2^25 \/ y.l < 2^25)
  THEN MulWhole(x, y)
  ELSE MulNormal(Normal(x), Normal(y))

MulN(x, y) ==
  IF IsNaN(x) \/ IsNaN(y) THEN NaN
  ELSE IF x.k = "inf" \/ y.k = "inf"
       THEN (IF IsZero(x) \/ IsZero(y) THEN NaN ELSE Inf(x.s * y.s))
  ELSE IF IsZero(x) \/ IsZero(y) THEN ZeroOf(x.s * y.s)
  ELSE MulFinite(x, y)

Mul(a, b) == MulN(ToNumber(a), ToNumber(b))

\* The digit q, or q + 1, of a quotient and the remainder r, less than the
\* divisor dw.
DivFixed(q, r, dw) ==
  IF WideLess(r, dw) THEN [q |-> q, r |-> r]
  ELSE [q |-> q + 1, r |-> WideDiff(r, dw)]

\* The next digit in base 2^14 of the quotient of the remainder r < dw by
\* the mantissa dw of digits d, from the estimate q of it: q is the digit or
\* one less.
DivDigit(r, dw, d, q) ==
  DivFixed(q,
           WideOf(Carried(<<-(q * d[1]),
                            (r.l % 16384) - q * d[2],
                            r.l \div 16384 - q * d[3],
                            (r.h % 16384) - q * d[4],
                            r.h \div 16384>>, 1, 0)),
           dw)

\* The digits acc of a quotient with n more of them, and the remainder.
RECURSIVE DivDigits(_, _, _, _, _)
DivDigits(s, dw, d, n, acc) ==
  IF n = 0 THEN [q |-> Append(acc, s.q), r |-> s.r]
  ELSE DivDigits(DivDigit(s.r, dw, d,
                          (s.r.h * 32 + s.r.l \div 8388608)
                            \div (dw.h \div 512 + 1)),
                 dw, d, n - 1, Append(acc, s.q))

\* floor(X * 2^56 / Y) of the mantissas X and Y, from its digits.
Quotient(t) ==
  [h |-> t.q[1] * 268435456 + t.q[2] * 16384 + t.q[3],
   l |-> t.q[4] * 16384 + t.q[5],
   lost |-> t.r.h # 0 \/ t.r.l # 0]

\* x / y for x and y with mantissas of 53 bits
DivNormal(x, y) ==
  RoundedWide(x.s * y.s,
              Jam(Quotient(DivDigits(DivFixed(0, [h |-> x.h, l |-> x.l],
                                              [h |-> y.h, l |-> y.l]),
                                     [h |-> y.h, l |-> y.l],
                                     LimbsOf(y.h, y.l), 4, <<>>))),
              x.e - y.e - 56)

\* x / y for finite x and y other than 0; a quotient of integers below 2^28
\* without a remainder is exact.
DivFinite(x, y) ==
  IF x.e = 0 /\ y.e = 0 /\ x.h = 0 /\ y.h = 0 /\ x.l % y.l = 0
  THEN WholeNumber(x.s * y.s, 0, x.l \div y.l)
  ELSE DivNormal(Normal(x), Normal(y))

DivN(x, y) ==
  IF IsNaN(x) \/ IsNaN(y) THEN NaN
  ELSE IF x.k = "inf" THEN (IF y.k = "inf" THEN NaN ELSE Inf(x.s * y.s))
  ELSE IF y.k = "inf" THEN ZeroOf(x.s * y.s)
  ELSE IF IsZero(y) THEN (IF IsZero(x) THEN NaN ELSE Inf(x.s * y.s))
  ELSE IF IsZero(x) THEN ZeroOf(x.s * y.s)
  ELSE DivFinite(x, y)

Div(a, b) == DivN(ToNumber(a), ToNumber(b))

\* Math.abs
Abs(a) ==
  LET x == ToNumber(a) IN IF x.k \in {"fin", "inf"} THEN [x EXCEPT !.s = 1] ELSE x

\* |x| < |y| for x and y with mantissas of 53 bits
NormalLess(x, y) == x.e < y.e \/ (x.e = y.e /\ WideLess(x, y))

\* |x| < |y| for finite x and y other than 0
MagnitudeLess(x, y) ==
  IF x.e = 0 /\ y.e = 0 THEN WideLess(x, y) ELSE NormalLess(Normal(x), Normal(y))

LessN(x, y) ==
  IF IsNaN(x) \/ IsNaN(y) THEN FALSE
  ELSE IF x.k = "inf" THEN x.s < 0 /\ ~(y.k = "inf" /\ y.s < 0)
  ELSE IF y.k = "inf" THEN y.s > 0
  ELSE IF SignOf(x) # SignOf(y) THEN SignOf(x) < SignOf(y)
  ELSE IF SignOf(x) = 0 THEN FALSE
  ELSE MagnitudeLess(IF x.s > 0 THEN x ELSE y, IF x.s > 0 THEN y ELSE x)

\* a < b, a > b, a <= b, a >= b; every comparison with NaN is false.
Less(a, b) == LessN(ToNumber(a), ToNumber(b))
Greater(a, b) == Less(b, a)
LessEq(a, b) ==
  ~IsNaN(ToNumber(a)) /\ ~IsNaN(ToNumber(b)) /\ ~Less(b, a)
GreaterEq(a, b) == LessEq(b, a)

\* reduce((sum, x) => sum + x, 0) over a sequence of numbers
RECURSIVE SumFrom(_, _, _)
SumFrom(acc, xs, i) ==
  IF i > Len(xs) THEN acc ELSE SumFrom(Add(acc, xs[i]), xs, i + 1)

Sum(xs) == SumFrom(Zero, xs, 1)

Digits == <<"0", "1", "2", "3", "4", "5", "6", "7", "8", "9">>
DigitValue == [c \in {Digits[i] : i \in 1..10} |->
                 (CHOOSE i \in 1..10 : Digits[i] = c) - 1]
IsDigit(c) == c \in DOMAIN DigitValue
DigitVal(c) == DigitValue[c]

\* Length of the run of digits of s starting at position i.
DigitRun(s, i) ==
  IF \A j \in i..Len(s) : IsDigit(s[j]) THEN (IF i > Len(s) THEN 0 ELSE Len(s) + 1 - i)
  ELSE (CHOOSE j \in i..Len(s) :
          ~IsDigit(s[j]) /\ \A k \in i..(j - 1) : IsDigit(s[k])) - i

\* Value of the digits s[i .. i + len - 1].
RECURSIVE DigitsVal(_, _, _)
DigitsVal(s, i, len) ==
  IF len = 0 THEN 0
  ELSE 10 * DigitsVal(s, i, len - 1) + DigitVal(s[i + len - 1])

RECURSIVE Pow10(_)
Pow10(e) == IF e = 0 THEN 1 ELSE 10 * Pow10(e - 1)

StartsWith(s, i, w) ==
  Len(s) >= i + Len(w) - 1 /\ SubSeq(s, i, i + Len(w) - 1) = w

\* The big integer of the decimal digits of b followed by s[i .. i + len - 1].
RECURSIVE BigDigits(_, _, _, _)
BigDigits(b, s, i, len) ==
  IF len = 0 THEN b
  ELSE IF b = <<>> /\ s[i] = "0" THEN BigDigits(b, s, i + 1, len - 1)
  ELSE BigDigits(BigTimes(b, 10, DigitVal(s[i])), s, i + 1, len - 1)

\* b * 10^x
RECURSIVE BigTimesPow10(_, _)
BigTimesPow10(b, x) ==
  IF b = <<>> THEN b
  ELSE IF x <= 4 THEN BigTimes(b, 10^x, 0)
  ELSE BigTimesPow10(BigTimesPow10(b, x \div 2), x - x \div 2)

\* The quotient of the division t, and whether a remainder is lost.
LostOr(t, lost) == [q |-> t.q, lost |-> lost \/ t.r # 0]

\* floor(d.q / 5^n), and whether a remainder is lost on the way.
RECURSIVE BigOverPow5(_, _)
BigOverPow5(d, n) ==
  IF d.q = <<>> \/ n = 0 THEN d
  ELSE IF n <= 7 THEN LostOr(BigDivSmall(d.q, 5^n), d.lost)
  ELSE BigOverPow5(BigOverPow5(d, n \div 2), n - n \div 2)

\* The double nearest to s * b * 2^e for a big integer b of n digits whose
\* highest digit has 14 bits; lost tells that the value is a little more.
BigRoundTop(s, b, n, e, lost) ==
  Rounded(s, Limb(b, n) * 16384 + Limb(b, n - 1),
          Jam([h |-> 0, l |-> Limb(b, n - 2) * 16384 + Limb(b, n - 3),
               lost |-> lost \/ \E j \in 1..(n - 4) : b[j] # 0]).l,
          e + 14 * (n - 4))

\* The same for a big integer b # 0, moved up by z bits.
BigRoundUp(s, b, e, lost, z) ==
  BigRoundTop(s, BigTimes(b, 2^z, 0), Len(b), e - z, lost)

BigRound(s, b, e, lost) ==
  IF BigTrim(b) = <<>> THEN ZeroOf(s)
  ELSE BigRoundUp(s, BigTrim(b), e, lost, 14 - BitLen(b[Len(BigTrim(b))]))

\* The digits of 0 that keep 60 bits of b * 2^(14 * k) / 5^n.
SpareLimbs(n) == (60 + (7 * n) \div 3) \div 14 + 1

WithExponent(d, e) == [q |-> d.q, lost |-> d.lost, e |-> e]

\* b * 10^x as the big integer q times 2^e, a little more when lost.
BigScaled(b, x) ==
  IF x >= 0 THEN [q |-> BigTimesPow10(b, x), lost |-> FALSE, e |-> 0]
  ELSE WithExponent(BigOverPow5([q |-> [j \in 1..SpareLimbs(-x) |-> 0] \o b,
                                 lost |-> FALSE], -x),
                    x - 14 * SpareLimbs(-x))

BigRoundOf(s, d) == BigRound(s, d.q, d.e, d.lost)

\* The double nearest to s * b * 10^x for the big integer b of a numeral of
\* len digits.
DecimalNumber(s, b, x, len) ==
  IF b = <<>> THEN ZeroOf(s)
  ELSE IF x > 310 THEN Inf(s)
  ELSE IF x + len < -330 THEN ZeroOf(s)
  ELSE BigRoundOf(s, BigScaled(b, x))

\* The value of the digits s[i .. i + len - 1] of an exponent, 999999 when
\* it is more.
ExponentVal(s, i, len) ==
  LET NonZero(z) == IF len - z > 6 THEN 999999 ELSE DigitsVal(s, i + z, len - z)
  IN IF \A j \in 0..(len - 1) : s[i + j] = "0" THEN 0
     ELSE NonZero(CHOOSE z \in 0..(len - 1) :
                    s[i + z] # "0" /\ \A j \in 0..(z - 1) : s[i + j] = "0")

\* The exponent that starts at position pe: 0 when no e or E stands there or
\* no digits follow it after an optional sign.
ExponentAt(s, pe) ==
  LET Value(ps, sg, el) == IF el = 0 THEN 0 ELSE sg * ExponentVal(s, ps, el)
      Signed(ps, sg) == Value(ps, sg, DigitRun(s, ps))
  IN IF pe > Len(s) \/ s[pe] \notin {"e", "E"} THEN 0
     ELSE IF pe + 1 <= Len(s) /\ s[pe + 1] \in {"-", "+"}
     THEN Signed(pe + 2, IF s[pe + 1] = "-" THEN -1 ELSE 1)
     ELSE Signed(pe + 1, 1)

\* The number of the literal t of parseFloat: Infinity, none, or the il
\* digits from position p0 of s on, the fl digits after the point and the
\* exponent x.
LiteralNumber(t) ==
  IF t.form = "Infinity" THEN Inf(t.sg)
  ELSE IF t.form = "none" THEN NaN
  ELSE IF t.fl = 0 /\ t.x = 0 /\ t.il <= 9
  THEN SignedWhole(t.sg, DigitsVal(t.s, t.p0, t.il))
  ELSE DecimalNumber(t.sg,
                     BigDigits(BigDigits(<<>>, t.s, t.p0, t.il), t.s,
                               t.p0 + t.il + 1, t.fl),
                     t.x - t.fl, t.il + t.fl)

\* parseFloat: leading white space is skipped, then the longest prefix that
\* is a decimal literal (sign, digits, fraction, exponent; or Infinity) is
\* read; NaN when there is none.  An e or E starts an exponent only when
\* digits follow it, after an optional sign.  undefined reads as the text
\* "undefined", hence NaN.
ParseFloat(str) ==
  LET \* il digits from position p0 on, then fl digits after a point if dot
      Literal(s, sg, p0, il, dot, fl) ==
        [form |-> IF StartsWith(s, p0, <<"I", "n", "f", "i", "n", "i", "t", "y">>)
                  THEN "Infinity"
                  ELSE IF il = 0 /\ fl = 0 THEN "none" ELSE "decimal",
         sg |-> sg, s |-> s, p0 |-> p0, il |-> il, fl |-> fl,
         x |-> ExponentAt(s, p0 + il + (IF dot THEN 1 + fl ELSE 0))]
      Mantissa(s, sg, p0, il) ==
        Literal(s, sg, p0, il, p0 + il <= Len(s) /\ s[p0 + il] = ".",
                IF p0 + il <= Len(s) /\ s[p0 + il] = "."
                THEN DigitRun(s, p0 + il + 1) ELSE 0)
      Signed(s, p0) ==
        Mantissa(s, IF s # <<>> /\ Head(s) = "-" THEN -1 ELSE 1, p0,
                 DigitRun(s, p0))
  IN IF ~IsString(str) THEN NaN
     ELSE LiteralNumber(
            Signed(TrimStart(str),
                   IF TrimStart(str) # <<>> /\ Head(TrimStart(str)) \in {"-", "+"}
                   THEN 2 ELSE 1))

(***************************************************************************)
(* CSV ingestion.                                                          *)
(***************************************************************************)
\* Variant: the field is always handed to parseFloat.
OptionalNumberAlwaysParsed(field) == ParseFloat(field)

\* customerFacingAmount ? parseFloat(customerFacingAmount) : null
OptionalNumber(field) ==
  IF TruthyStr(field) THEN ParseFloat(field) ELSE NullNum

\* The record built from one line (the body of the map callback).
ParseLine(line) ==
  LET f == Split(line, ",") IN
  [ id |-> At(f, 1),
    type |-> At(f, 2),
    source |-> At(f, 3),
    amount |-> ParseFloat(At(f, 4)),
    fee |-> ParseFloat(At(f, 5)),
    net |-> ParseFloat(At(f, 8)),
    currency |-> At(f, 9),
    created |-> At(f, 10),
    availableOn |-> At(f, 11),
    description |-> At(f, 12),
    customerFacingAmount |-> OptionalNumber(At(f, 13)),
    customerFacingCurrency |->
      IF TruthyStr(At(f, 14)) THEN At(f, 14) ELSE Null,
    transfer |-> At(f, 15),
    transferDate |-> At(f, 16) ]

\* Variant: the header line is not skipped.
\* The lines that are mapped to records: trim, split on newline, skip header.
DataLines(data) == Slice1(Split(Trim(data), NL))

parseTransactions(data) ==
  LET ls == DataLines(data) IN ArrayOf([i \in 1..Len(ls) |-> ParseLine(ls[i])])

(***************************************************************************)
(* Dates (date-fns parseISO, format, differenceInMinutes, differenceInHours *)
(* and the Date constructor).  A Date is the record of its local fields    *)
(* [ok, y, mo, d, h, mi, s, ms]; ok = FALSE is the Invalid Date.  Local    *)
(* time is taken to be UTC.  A time value is a day number (days from       *)
(* 1970-01-01) together with the milliseconds within the day.              *)
(***************************************************************************)
InvalidDate ==
  [ok |-> FALSE, threw |-> FALSE,
   y |-> 0, mo |-> 0, d |-> 0, h |-> 0, mi |-> 0, s |-> 0, ms |-> 0]

IsLeap(y) == (y % 4 = 0 /\ y % 100 # 0) \/ y % 400 = 0

DaysInMonth(y, m) ==
  IF m = 2 THEN (IF IsLeap(y) THEN 29 ELSE 28)
  ELSE IF m \in {4, 6, 9, 11} THEN 30 ELSE 31

\* Days from 1970-01-01 to y-m-d in the proleptic Gregorian calendar.
DaysFromCivil(y, m, d) ==
  LET yy == IF m <= 2 THEN y - 1 ELSE y
      era == yy \div 400
      yoe == yy - era * 400
      mp == IF m > 2 THEN m - 3 ELSE m + 9
      doy == (153 * mp + 2) \div 5 + d - 1
      doe == yoe * 365 + yoe \div 4 - yoe \div 100 + doy
  IN era * 146097 + doe - 719468

\* The year, month and day of a day number.
CivilFromDays(z) ==
  LET zz == z + 719468
      era == zz \div 146097
      doe == zz - era * 146097
      yoe == (doe - doe \div 1460 + doe \div 36524 - doe \div 146096) \div 365
      doy == doe - (365 * yoe + yoe \div 4 - yoe \div 100)
      mp == (5 * doy + 2) \div 153
      m == IF mp < 10 THEN mp + 3 ELSE mp - 9
  IN [y |-> yoe + era * 400 + (IF m <= 2 THEN 1 ELSE 0), mo |-> m,
      d |-> doy - (153 * mp + 2) \div 5 + 1]

MsPerDay == 24 * 60 * 60 * 1000

\* The Date of day dd and r milliseconds into it; a time value beyond
\* 100,000,000 days from the epoch is the Invalid Date.
DateOfDay(dd, r) ==
  LET Fields(c) ==
        [ok |-> TRUE, threw |-> FALSE, y |-> c.y, mo |-> c.mo, d |-> c.d,
         h |-> r \div 3600000, mi |-> (r \div 60000) % 60,
         s |-> (r \div 1000) % 60, ms |-> r % 1000]
  IN IF dd < -100000000 \/ dd > 100000000 \/ (dd = 100000000 /\ r > 0)
     THEN InvalidDate
     ELSE Fields(CivilFromDays(dd))

\* The Date of the time value day * MsPerDay + time.
MakeDate(day, time) == DateOfDay(day + time \div MsPerDay, time % MsPerDay)

DayNumber(dt) == DaysFromCivil(dt.y, dt.mo, dt.d)

MsOfDay(dt) == ((dt.h * 60 + dt.mi) * 60 + dt.s) * 1000 + dt.ms

\* Date.prototype.getTime: the milliseconds from the epoch, NaN for the
\* Invalid Date.
GetTime(dt) ==
  IF ~dt.ok THEN NaN
  ELSE AddN(MulN(Int2Num(DayNumber(dt)), Int2Num(MsPerDay)), Int2Num(MsOfDay(dt)))

\* The Date of the time value of t whole milliseconds after (s = 1) or before
\* (s = -1) the epoch; t is floor(t / 1024), in digits, and low more.
DateOfDigits(s, d, low) ==
  IF s > 0 \/ d.r * 1024 + low = 0
  THEN DateOfDay(s * (Limb(d.q, 1) + Limb(d.q, 2) * 16384), d.r * 1024 + low)
  ELSE DateOfDay(-(Limb(d.q, 1) + Limb(d.q, 2) * 16384) - 1,
                 MsPerDay - (d.r * 1024 + low))

DateOfWhole(s, t, u) ==
  DateOfDigits(s, BigDivSmall(LimbsOf(u.h, u.l), MsPerDay \div 1024),
               t.l % 1024)

\* new Date(value) for a number: the value is cut to whole milliseconds
\* towards zero; NaN, an infinity and a value beyond 8.64e15 give the
\* Invalid Date.
DateOfValue(x) ==
  IF x.k # "fin" \/ x.e > 0 THEN InvalidDate
  ELSE DateOfWhole(x.s, ShiftRight(x.h, x.l, -x.e),
                   ShiftRight(x.h, x.l, 10 - x.e))

\* a.getTime() - b.getTime() < 0
Earlier(a, b) ==
  \/ DayNumber(a) < DayNumber(b)
  \/ DayNumber(a) = DayNumber(b) /\ MsOfDay(a) < MsOfDay(b)

\* Date.prototype.getDay: 0 is Sunday.
GetDay(dt) == (DayNumber(dt) + 4) % 7

AllDigits(s, i, len) ==
  Len(s) >= i + len - 1 /\ \A j \in i..(i + len - 1) : IsDigit(s[j])

\* Index of the first character of s at or after i that is in cs, 0 if none.
IndexOfAny(s, cs, i) ==
  IF \E j \in i..Len(s) : s[j] \in cs
  THEN CHOOSE j \in i..Len(s) : s[j] \in cs /\ \A k \in i..(j - 1) : s[k] \notin cs
  ELSE 0

\* String.prototype.split on a class of characters.
RECURSIVE SplitAny(_, _)
SplitAny(s, cs) ==
  LET i == IndexOfAny(s, cs, 1) IN
  IF i = 0 THEN <<s>>
  ELSE <<SubSeq(s, 1, i - 1)>> \o SplitAny(SubSeq(s, i + 1, Len(s)), cs)

(***************************************************************************)
(* parseISO.  The text is split at T or space into a date and a time (more *)
(* than two pieces, or a first piece with a colon, give no date); the time *)
(* loses the time zone that starts at its first Z, + or -.  The date is a  *)
(* year (YYYY, +-YYYYYY, or a century CC, +-CCCC alone) followed by        *)
(* nothing, MM, MM-DD, MMDD, a day of the year DDD or a week date Www,     *)
(* Www-D, each after an optional hyphen.  The time is HH, HH:MM or         *)
(* HH:MM:SS, the colons optional, each unit with an optional fraction      *)
(* after a point or comma.  The result is the date plus the time plus the  *)
(* offset of the zone, so 24:00 is the start of the next day.              *)
(***************************************************************************)
NoStrings == [date |-> Undefined, time |-> Undefined, timezone |-> Undefined]

\* The time string split into time and timezone: /([Z+-].*)$/, where the dot
\* does not match a line terminator.
SplitTimezone(date, timeString) ==
  LET zs == {i \in 1..Len(timeString) :
               /\ timeString[i] \in {"Z", "+", "-"}
               /\ \A j \in (i + 1)..Len(timeString) : timeString[j] \notin {NL, "\r"}}
      \* timeString.replace(token[1], ''): the first place the text of the
      \* token stands at is cut out, which is z or a place before it.
      First(z) ==
        CHOOSE i \in 1..z :
          /\ SubSeq(timeString, i, i + Len(timeString) - z)
               = SubSeq(timeString, z, Len(timeString))
          /\ \A j \in 1..(i - 1) :
               SubSeq(timeString, j, j + Len(timeString) - z)
                 # SubSeq(timeString, z, Len(timeString))
      Token(z) ==
        [date |-> date,
         time |-> SubSeq(timeString, 1, First(z) - 1)
                  \o SubSeq(timeString, First(z) + Len(timeString) - z + 1,
                            Len(timeString)),
         timezone |-> SubSeq(timeString, z, Len(timeString))]
  IN IF ~TruthyStr(timeString) THEN [NoStrings EXCEPT !.date = date]
     ELSE IF zs = {} THEN [NoStrings EXCEPT !.date = date, !.time = timeString]
     ELSE Token(CHOOSE z \in zs : \A i \in zs : z <= i)

splitDateString(dateString) ==
  LET Pieces(array, z) ==
        IF Len(array) > 2 THEN NoStrings
        ELSE IF \E i \in 1..Len(array[1]) : array[1][i] = ":"
        THEN SplitTimezone(Undefined, array[1])
        ELSE IF \E i \in 1..Len(array[1]) : array[1][i] \in {"Z", "z"}
        THEN SplitTimezone(SubSeq(dateString, 1, z - 1),
                           SubSeq(dateString, z, Len(dateString)))
        ELSE SplitTimezone(array[1], At(array, 2))
  IN Pieces(SplitAny(dateString, {"T", " "}),
            IndexOfAny(dateString, {"Z", "z", " "}, 1))

\* The year and the rest of the date string; ok = FALSE when there is no year.
parseYear(dateString) ==
  LET signed == dateString # <<>> /\ dateString[1] \in {"+", "-"}
      sign == IF signed /\ dateString[1] = "-" THEN -1 ELSE 1
      n == Len(dateString)
  IN IF AllDigits(dateString, 1, 4)
     THEN [ok |-> TRUE, year |-> DigitsVal(dateString, 1, 4),
           restDateString |-> SubSeq(dateString, 5, n)]
     ELSE IF signed /\ AllDigits(dateString, 2, 6)
     THEN [ok |-> TRUE, year |-> sign * DigitsVal(dateString, 2, 6),
           restDateString |-> SubSeq(dateString, 8, n)]
     ELSE IF n = 2 /\ AllDigits(dateString, 1, 2)
     THEN [ok |-> TRUE, year |-> 100 * DigitsVal(dateString, 1, 2),
           restDateString |-> <<>>]
     ELSE IF signed /\ n = 5 /\ AllDigits(dateString, 2, 4)
     THEN [ok |-> TRUE, year |-> sign * 100 * DigitsVal(dateString, 2, 4),
           restDateString |-> <<>>]
     ELSE [ok |-> FALSE, year |-> 0, restDateString |-> <<>>]

NoDay == [ok |-> FALSE, day |-> 0]

\* The day number of the date after the year; ok = FALSE for an invalid date.
parseDate(dateString, year) ==
  LET s == IF dateString # <<>> /\ dateString[1] = "-"
           THEN Tail(dateString) ELSE dateString
      n == Len(s)
      InRange(day) ==
        IF day < -100000000 \/ day > 100000000 THEN NoDay
        ELSE [ok |-> TRUE, day |-> day]
      MonthDay(month, day, dayOfYear) ==
        IF /\ month >= 1 /\ month <= 12
           /\ day >= 1 /\ day <= DaysInMonth(year, month)
           /\ dayOfYear >= 1 /\ dayOfYear <= (IF IsLeap(year) THEN 366 ELSE 365)
        THEN InRange(DaysFromCivil(year, month, 1)
                     + (IF dayOfYear > day THEN dayOfYear ELSE day) - 1)
        ELSE NoDay
      \* dayOfISOWeekYear: setUTCFullYear(year, 0, 4) first; a 4 January
      \* outside the range of Date leaves the date invalid whatever the week.
      FromFourth(week, dayOfWeek, fourth, fourthDay) ==
        IF ~InRange(fourth).ok THEN NoDay
        ELSE InRange(fourth + (week - 1) * 7 + dayOfWeek + 1
                     - (IF fourthDay = 0 THEN 7 ELSE fourthDay))
      WeekDay(week, dayOfWeek) ==
        IF week >= 1 /\ week <= 53 /\ dayOfWeek >= 0 /\ dayOfWeek <= 6
        THEN FromFourth(week, dayOfWeek, DaysFromCivil(year, 1, 4),
                        (DaysFromCivil(year, 1, 4) + 4) % 7)
        ELSE NoDay
  IN IF n = 0 THEN MonthDay(1, 1, 1)
     ELSE IF n = 3 /\ AllDigits(s, 1, 3) THEN MonthDay(1, 1, DigitsVal(s, 1, 3))
     ELSE IF n = 2 /\ AllDigits(s, 1, 2) THEN MonthDay(DigitsVal(s, 1, 2), 1, 1)
     ELSE IF n = 4 /\ AllDigits(s, 1, 4)
     THEN MonthDay(DigitsVal(s, 1, 2), DigitsVal(s, 3, 2), 1)
     ELSE IF n = 5 /\ AllDigits(s, 1, 2) /\ s[3] = "-" /\ AllDigits(s, 4, 2)
     THEN MonthDay(DigitsVal(s, 1, 2), DigitsVal(s, 4, 2), 1)
     ELSE IF n = 3 /\ s[1] = "W" /\ AllDigits(s, 2, 2)
     THEN WeekDay(DigitsVal(s, 2, 2), 0)
     ELSE IF n = 4 /\ s[1] = "W" /\ AllDigits(s, 2, 3)
     THEN WeekDay(DigitsVal(s, 2, 2), DigitVal(s[4]) - 1)
     ELSE IF n = 5 /\ s[1] = "W" /\ AllDigits(s, 2, 2) /\ s[4] = "-" /\ IsDigit(s[5])
     THEN WeekDay(DigitsVal(s, 2, 2), DigitVal(s[5]) - 1)
     ELSE NoDay

\* The texts of the units of a time string from position p on, the k-th
\* unit first: the captures of
\* /^(\d{2}(?:[.,]\d*)?)(?::?(\d{2}(?:[.,]\d*)?))?(?::?(\d{2}(?:[.,]\d*)?))?$/
\* that the regular expression engine finds (the longest fraction first).
RECURSIVE MatchTime(_, _, _)
MatchTime(s, p, k) ==
  LET q == IF k > 1 /\ p <= Len(s) /\ s[p] = ":" THEN p + 1 ELSE p
      present == k <= 3 /\ AllDigits(s, q, 2)
      fraction == present /\ q + 2 <= Len(s) /\ s[q + 2] \in {".", ","}
      fs == IF fraction
            THEN {f \in 0..DigitRun(s, q + 3) : MatchTime(s, q + 3 + f, k + 1).ok}
            ELSE {}
      Unit(n, rest) ==
        [ok |-> TRUE, units |-> <<SubSeq(s, q, q + n - 1)>> \o rest.units]
      Longest(f) == Unit(3 + f, MatchTime(s, q + 3 + f, k + 1))
      Whole(rest) ==
        IF rest.ok THEN Unit(2, rest)
        ELSE [ok |-> k > 1 /\ p = Len(s) + 1, units |-> <<>>]
  IN IF ~present THEN [ok |-> k > 1 /\ p = Len(s) + 1, units |-> <<>>]
     ELSE IF fs # {} THEN Longest(CHOOSE f \in fs : \A g \in fs : g <= f)
     ELSE Whole(MatchTime(s, q + 2, k + 1))

\* parseTimeUnit: parseFloat of a captured text with a point for the comma,
\* 0 for a capture that is absent.
parseTimeUnit(value) ==
  IF value = <<>> THEN Zero
  ELSE Or(ParseFloat([i \in 1..Len(value) |->
                        IF value[i] = "," THEN "." ELSE value[i]]),
          Zero)

validateTime(hours, minutes, seconds) ==
  IF StrictEq(hours, Int2Num(24))
  THEN StrictEq(minutes, Zero) /\ StrictEq(seconds, Zero)
  ELSE /\ GreaterEq(seconds, Zero) /\ Less(seconds, Int2Num(60))
       /\ GreaterEq(minutes, Zero) /\ Less(minutes, Int2Num(60))
       /\ GreaterEq(hours, Zero) /\ Less(hours, Int2Num(25))

\* hours * millisecondsInHour + minutes * millisecondsInMinute + seconds * 1000
TimeOfParts(hours, minutes, seconds) ==
  AddN(AddN(Mul(hours, Int2Num(3600000)), Mul(minutes, Int2Num(60000))),
       Mul(seconds, Int2Num(1000)))

\* validateTime, then the milliseconds of the units.
TimeOfUnits(units) ==
  IF ~validateTime(units[1], units[2], units[3]) THEN NaN
  ELSE TimeOfParts(units[1], units[2], units[3])

\* The milliseconds of the match of a time string; NaN when there is none.
TimeOfMatch(m) ==
  IF ~m.ok THEN NaN
  ELSE TimeOfUnits(ArrayOf([i \in 1..3 |->
                              parseTimeUnit(IF i <= Len(m.units) THEN m.units[i]
                                            ELSE <<>>)]))

\* The milliseconds of a time string; NaN when it is not a time.
parseTime(timeString) == TimeOfMatch(MatchTime(timeString, 1, 1))

\* The offset of a time zone in minutes; ok = FALSE when its minutes are not.
\* A zone that is not Z, +-HH, +-HHMM or +-HH:MM counts as no offset.
parseTimezone(timezoneString) ==
  LET z == timezoneString
      n == Len(z)
      sign == IF z[1] = "+" THEN -1 ELSE 1
      Offset(hours, minutes) ==
        [ok |-> minutes <= 59, minutes |-> sign * (hours * 60 + minutes)]
  IN IF z[1] \in {"+", "-"} /\ n = 3 /\ AllDigits(z, 2, 2)
     THEN Offset(DigitsVal(z, 2, 2), 0)
     ELSE IF z[1] \in {"+", "-"} /\ n = 5 /\ AllDigits(z, 2, 4)
     THEN Offset(DigitsVal(z, 2, 2), DigitsVal(z, 4, 2))
     ELSE IF z[1] \in {"+", "-"} /\ n = 6 /\ AllDigits(z, 2, 2) /\ z[4] = ":"
             /\ AllDigits(z, 5, 2)
     THEN Offset(DigitsVal(z, 2, 2), DigitsVal(z, 5, 2))
     ELSE [ok |-> TRUE, minutes |-> 0]

\* new Date(timestamp + time + offset) for the timestamp of a day.
DateOfSum(day, time, offsetMinutes) ==
  DateOfValue(AddN(AddN(MulN(Int2Num(day), Int2Num(MsPerDay)), time),
                   Int2Num(offsetMinutes * 60000)))

\* parseISO from the parsed parts on, and from the split text on.
DateOfParts(parseYearResult, date, time, timezone) ==
  IF ~parseYearResult.ok \/ ~date.ok \/ IsNaN(time) \/ ~timezone.ok
  THEN InvalidDate
  ELSE DateOfSum(date.day, time, timezone.minutes)

DateOfStrings(dateStrings) ==
  IF ~TruthyStr(dateStrings.date) THEN InvalidDate
  ELSE DateOfParts(parseYear(dateStrings.date),
                   parseDate(parseYear(dateStrings.date).restDateString,
                             parseYear(dateStrings.date).year),
                   IF TruthyStr(dateStrings.time) THEN parseTime(dateStrings.time)
                   ELSE Zero,
                   IF TruthyStr(dateStrings.timezone)
                   THEN parseTimezone(dateStrings.timezone)
                   ELSE [ok |-> TRUE, minutes |-> 0])

\* The TypeError of reading a property of undefined or null, in the place
\* of a Date.
TypeErrorThrown == [InvalidDate EXCEPT !.threw = TRUE]

\* parseISO; it calls argument.split, which throws for undefined and null.
parseISO(argument) ==
  IF ~IsString(argument) THEN TypeErrorThrown
  ELSE DateOfStrings(splitDateString(argument))

(***************************************************************************)
(* new Date(string).  The engine cuts the text into tokens: numbers, the   *)
(* symbols : - + . ), words (runs of characters from A on), white space    *)
(* and unknown characters.  It first reads as much of the ISO form         *)
(* [+-YY]YYYY[-MM[-DD]][THH:MM[:SS[.sss]][Z|+-HH:MM]] as the text has and  *)
(* then reads the tokens left over by the legacy rules: a number before a  *)
(* colon or after one is a part of the time, any other number a part of    *)
(* the day, a word that starts like a month name is the month.  A day from *)
(* 1 to 31 beyond the end of its month runs into the next month, 24:00 is  *)
(* the start of the next day, and outside the ISO form a year from 0 to 49 *)
(* is taken in 2000 and one from 50 to 99 in 1900.                         *)
(***************************************************************************)
\* The month names of the parser's words and of the formats.
MonthNames ==
  << <<"J","a","n">>, <<"F","e","b">>, <<"M","a","r">>, <<"A","p","r">>,
     <<"M","a","y">>, <<"J","u","n">>, <<"J","u","l">>, <<"A","u","g">>,
     <<"S","e","p">>, <<"O","c","t">>, <<"N","o","v">>, <<"D","e","c">> >>

Lower ==
  [c \in {"A","B","C","D","E","F","G","H","I","J","K","L","M",
          "N","O","P","Q","R","S","T","U","V","W","X","Y","Z"} |->
     Chars[Ord(c) + (Ord("a") - Ord("A"))]]

ToLowerCase(s) ==
  [i \in 1..Len(s) |-> IF s[i] \in DOMAIN Lower THEN Lower[s[i]] ELSE s[i]]

\* The first three letters of the month names, in lower case.
MonthWords == [m \in 1..12 |-> ToLowerCase(MonthNames[m])]

\* The time zone words and their offsets in hours.
ZoneNames ==
  << <<"u","t">>, <<"u","t","c">>, <<"z">>, <<"g","m","t">>,
     <<"c","d","t">>, <<"c","s","t">>, <<"e","d","t">>, <<"e","s","t">>,
     <<"m","d","t">>, <<"m","s","t">>, <<"p","d","t">>, <<"p","s","t">> >>

ZoneHours == <<0, 0, 0, 0, -5, -6, -4, -5, -6, -7, -7, -8>>

EndOfInput == [t |-> "end", n |-> 0, len |-> 0, c |-> ""]

\* The keyword token of a word: a month name (any word with the first three
\* letters of one), am, pm, a time zone word, the separator T, or no keyword.
Keyword(word) ==
  LET w == ToLowerCase(word)
      n == Len(w)
      months == {m \in 1..12 : n >= 3 /\ SubSeq(w, 1, 3) = MonthWords[m]}
      zones == {z \in 1..Len(ZoneNames) : w = ZoneNames[z]}
  IN IF months # {}
     THEN [t |-> "month", n |-> CHOOSE m \in months : TRUE, len |-> n, c |-> ""]
     ELSE IF w = <<"a", "m">> THEN [t |-> "ampm", n |-> 0, len |-> n, c |-> ""]
     ELSE IF w = <<"p", "m">> THEN [t |-> "ampm", n |-> 12, len |-> n, c |-> ""]
     ELSE IF zones # {}
     THEN [t |-> "zone", n |-> ZoneHours[CHOOSE z \in zones : TRUE], len |-> n, c |-> ""]
     ELSE IF w = <<"t">> THEN [t |-> "separator", n |-> 0, len |-> n, c |-> ""]
     ELSE [t |-> "word", n |-> 0, len |-> n, c |-> ""]

\* The value of the digits s[i .. i + len - 1]: of their first nine
\* significant digits when there are more.
ReadUnsignedNumeral(s, i, len) ==
  LET NonZero(z) == DigitsVal(s, i + z, IF len - z > 9 THEN 9 ELSE len - z)
  IN IF \A j \in 0..(len - 1) : s[i + j] = "0" THEN 0
     ELSE NonZero(CHOOSE z \in 0..(len - 1) :
                    s[i + z] # "0" /\ \A j \in 0..(z - 1) : s[i + j] = "0")

\* The characters of a word: those from A on.
WordChars == {Chars[i] : i \in Rank["A"]..Len(Chars)}

\* Length of the run of word characters of s starting at position i.
WordRun(s, i) ==
  IF \A j \in i..Len(s) : s[j] \in WordChars
  THEN (IF i > Len(s) THEN 0 ELSE Len(s) + 1 - i)
  ELSE (CHOOSE j \in i..Len(s) :
          s[j] \notin WordChars /\ \A k \in i..(j - 1) : s[k] \in WordChars) - i

\* Position after the parenthesised text that starts at position i.
RECURSIVE SkipParentheses(_, _, _)
SkipParentheses(s, i, balance) ==
  LET b == IF s[i] = ")" THEN balance - 1
           ELSE IF s[i] = "(" THEN balance + 1 ELSE balance
  IN IF b > 0 /\ i + 1 <= Len(s) THEN SkipParentheses(s, i + 1, b) ELSE i + 1

\* The tokens of s from position i on.
RECURSIVE Tokens(_, _)
Tokens(s, i) ==
  LET Number(len) ==
        <<[t |-> "number", n |-> ReadUnsignedNumeral(s, i, len), len |-> len,
           c |-> ""]>> \o Tokens(s, i + len)
      Word(len) == <<Keyword(SubSeq(s, i, i + len - 1))>> \o Tokens(s, i + len)
      One(t) == <<[t |-> t, n |-> 0, len |-> 1, c |-> s[i]]>> \o Tokens(s, i + 1)
  IN IF i > Len(s) THEN <<>>
     ELSE IF IsDigit(s[i]) THEN Number(DigitRun(s, i))
     ELSE IF s[i] \in {":", "-", "+", ".", ")"} THEN One("symbol")
     ELSE IF s[i] \in WordChars THEN Word(WordRun(s, i))
     ELSE IF s[i] \in WhiteSpace THEN One("space")
     ELSE IF s[i] = "("
     THEN <<[t |-> "unknown", n |-> 0, len |-> 0, c |-> ""]>>
          \o Tokens(s, SkipParentheses(s, i, 0))
     ELSE One("unknown")

TokenAt(ts, i) == IF i <= Len(ts) THEN ts[i] ELSE EndOfInput

IsSymbol(tok, c) == tok.t = "symbol" /\ tok.c = c
IsAsciiSign(tok) == tok.t = "symbol" /\ tok.c \in {"+", "-"}
IsFixedNumber(tok, len) == tok.t = "number" /\ tok.len = len
IsKeywordZ(tok) == tok.t = "zone" /\ tok.len = 1

\* The milliseconds a number after the decimal point stands for.
ReadMilliseconds(tok) ==
  IF tok.len = 1 THEN tok.n * 100
  ELSE IF tok.len = 2 THEN tok.n * 10
  ELSE IF tok.len = 3 THEN tok.n
  ELSE tok.n \div Pow10((IF tok.len > 9 THEN 9 ELSE tok.len) - 3)

\* The composers of the day, the time and the time zone before any token is
\* read; -1 stands for a part that is not set, the sign of the zone is 1 for
\* east of UTC and 0 for west.
NothingRead ==
  [ok |-> TRUE, day |-> <<>>, namedMonth |-> -1, isIsoDate |-> FALSE,
   time |-> <<>>, hourOffset |-> -1,
   sign |-> -1, hour |-> -1, minute |-> -1, hasReadNumber |-> FALSE]

Failed == [NothingRead EXCEPT !.ok = FALSE]

\* TimeComposer::IsExpecting
TimeIsExpecting(time, n) ==
  \/ Len(time) = 1 /\ n >= 0 /\ n <= 59
  \/ Len(time) = 2 /\ n >= 0 /\ n <= 59
  \/ Len(time) = 3 /\ n >= 0 /\ n <= 999

\* TimeComposer::AddFinal: the remaining parts are 0.
AddFinal(time, n) ==
  LET t == Append(time, n) IN
  [i \in 1..4 |-> IF i <= Len(t) THEN t[i] ELSE 0]

\* The ISO part of the text: the composers and the index of the first token
\* that is left to the legacy rules (past the end when none is left).  The
\* steps of the reading come first, the last one first.
ES5Done(ts, st) ==
  [st |-> [st EXCEPT !.isIsoDate = TRUE,
                     !.sign = IF st.hour = -1 /\ st.time = <<>> THEN 1 ELSE @,
                     !.hour = IF st.hour = -1 /\ st.time = <<>> THEN 0 ELSE @,
                     !.minute = IF st.hour = -1 /\ st.time = <<>> THEN 0 ELSE @],
   next |-> Len(ts) + 1]

ES5End(ts, st, i) ==
  IF i <= Len(ts) THEN [st |-> Failed, next |-> 1] ELSE ES5Done(ts, st)

ES5Zone(ts, st, i) ==
  IF IsKeywordZ(TokenAt(ts, i))
  THEN ES5End(ts, [st EXCEPT !.sign = 1, !.hour = 0, !.minute = 0], i + 1)
  ELSE IF IsAsciiSign(TokenAt(ts, i))
  THEN IF IsFixedNumber(TokenAt(ts, i + 1), 4)
       THEN IF \/ TokenAt(ts, i + 1).n \div 100 > 23
               \/ TokenAt(ts, i + 1).n % 100 > 59
            THEN [st |-> Failed, next |-> 1]
            ELSE ES5End(ts, [st EXCEPT
                               !.sign = IF TokenAt(ts, i).c = "+" THEN 1 ELSE 0,
                               !.hour = TokenAt(ts, i + 1).n \div 100,
                               !.minute = TokenAt(ts, i + 1).n % 100], i + 2)
       ELSE IF /\ IsFixedNumber(TokenAt(ts, i + 1), 2) /\ TokenAt(ts, i + 1).n <= 23
               /\ IsSymbol(TokenAt(ts, i + 2), ":")
               /\ IsFixedNumber(TokenAt(ts, i + 3), 2) /\ TokenAt(ts, i + 3).n <= 59
       THEN ES5End(ts, [st EXCEPT
                          !.sign = IF TokenAt(ts, i).c = "+" THEN 1 ELSE 0,
                          !.hour = TokenAt(ts, i + 1).n,
                          !.minute = TokenAt(ts, i + 3).n], i + 4)
       ELSE [st |-> Failed, next |-> 1]
  ELSE ES5End(ts, st, i)

ES5Millis(ts, st, i, is24) ==
  IF IsSymbol(TokenAt(ts, i), ".")
  THEN IF TokenAt(ts, i + 1).t # "number" \/ (is24 /\ TokenAt(ts, i + 1).n > 0)
       THEN [st |-> Failed, next |-> 1]
       ELSE ES5Zone(ts, [st EXCEPT !.time =
                           Append(@, ReadMilliseconds(TokenAt(ts, i + 1)))], i + 2)
  ELSE ES5Zone(ts, st, i)

ES5Seconds(ts, st, i, is24) ==
  IF IsSymbol(TokenAt(ts, i), ":")
  THEN IF ~IsFixedNumber(TokenAt(ts, i + 1), 2) \/ TokenAt(ts, i + 1).n > 59
          \/ (is24 /\ TokenAt(ts, i + 1).n > 0)
       THEN [st |-> Failed, next |-> 1]
       ELSE ES5Millis(ts, [st EXCEPT !.time = Append(@, TokenAt(ts, i + 1).n)],
                      i + 2, is24)
  ELSE ES5Zone(ts, st, i)

ES5Time(ts, st, i) ==
  IF TokenAt(ts, i).t # "separator"
  THEN (IF i <= Len(ts) THEN [st |-> st, next |-> i] ELSE ES5Done(ts, st))
  ELSE IF /\ IsFixedNumber(TokenAt(ts, i + 1), 2) /\ TokenAt(ts, i + 1).n <= 24
          /\ IsSymbol(TokenAt(ts, i + 2), ":")
          /\ IsFixedNumber(TokenAt(ts, i + 3), 2) /\ TokenAt(ts, i + 3).n <= 59
          /\ (TokenAt(ts, i + 1).n = 24 => TokenAt(ts, i + 3).n = 0)
  THEN ES5Seconds(ts, [st EXCEPT !.time = <<TokenAt(ts, i + 1).n,
                                            TokenAt(ts, i + 3).n>>],
                  i + 4, TokenAt(ts, i + 1).n = 24)
  ELSE [st |-> Failed, next |-> 1]

ES5DayOfMonth(ts, st, i) ==
  IF IsSymbol(TokenAt(ts, i), "-")
  THEN IF \/ ~IsFixedNumber(TokenAt(ts, i + 1), 2)
          \/ TokenAt(ts, i + 1).n < 1 \/ TokenAt(ts, i + 1).n > 31
       THEN [st |-> st, next |-> i + 1]
       ELSE ES5Time(ts, [st EXCEPT !.day = Append(@, TokenAt(ts, i + 1).n)], i + 2)
  ELSE ES5Time(ts, st, i)

ES5Month(ts, st, i) ==
  IF IsSymbol(TokenAt(ts, i), "-")
  THEN IF \/ ~IsFixedNumber(TokenAt(ts, i + 1), 2)
          \/ TokenAt(ts, i + 1).n < 1 \/ TokenAt(ts, i + 1).n > 12
       THEN [st |-> st, next |-> i + 1]
       ELSE ES5DayOfMonth(ts, [st EXCEPT !.day = Append(@, TokenAt(ts, i + 1).n)],
                          i + 2)
  ELSE ES5Time(ts, st, i)

ParseES5DateTime(ts) ==
  IF IsAsciiSign(TokenAt(ts, 1))
  THEN IF ~IsFixedNumber(TokenAt(ts, 2), 6)
       THEN [st |-> NothingRead, next |-> 1]
       ELSE IF TokenAt(ts, 1).c = "-" /\ TokenAt(ts, 2).n = 0
       THEN [st |-> NothingRead, next |-> 3]
       ELSE ES5Month(ts, [NothingRead EXCEPT
                            !.day = <<(IF TokenAt(ts, 1).c = "-" THEN -1 ELSE 1)
                                      * TokenAt(ts, 2).n>>], 3)
  ELSE IF IsFixedNumber(TokenAt(ts, 1), 4)
  THEN ES5Month(ts, [NothingRead EXCEPT !.day = <<TokenAt(ts, 1).n>>], 2)
  ELSE [st |-> NothingRead, next |-> 1]

\* The legacy rules on the tokens from index i on.
RECURSIVE LegacyParse(_, _, _)
LegacyParse(ts, i, st) ==
  LET tok == TokenAt(ts, i)
      T(j) == TokenAt(ts, j)
      read == [st EXCEPT !.hasReadNumber = TRUE]
      \* a number that is not followed by a colon; j is the next token
      Number(j, dot) ==
        IF dot /\ TimeIsExpecting(st.time, tok.n)
        THEN IF T(j).t # "number" THEN Failed
             ELSE LegacyParse(ts, j + 1,
                    [read EXCEPT !.time =
                       SubSeq(AddFinal(Append(st.time, tok.n),
                                       ReadMilliseconds(T(j))), 1, 4)])
        ELSE IF st.hour # -1 /\ st.minute = -1 /\ tok.n >= 0 /\ tok.n <= 59
        THEN LegacyParse(ts, j, [read EXCEPT !.minute = tok.n])
        ELSE IF TimeIsExpecting(st.time, tok.n)
        THEN IF T(j).t \in {"end", "space"} \/ IsKeywordZ(T(j)) \/ IsAsciiSign(T(j))
             THEN LegacyParse(ts, j, [read EXCEPT !.time = AddFinal(st.time, tok.n)])
             ELSE Failed
        ELSE IF Len(st.day) >= 3 THEN Failed
        ELSE LegacyParse(ts, IF IsSymbol(T(j), "-") THEN j + 1 ELSE j,
                         [read EXCEPT !.day = Append(@, tok.n)])
      \* a sign that starts a UTC offset; j is the token after its number
      Offset(n, len, j) ==
        IF IsSymbol(T(j), ":")
        THEN LegacyParse(ts, j, [read EXCEPT !.sign = IF tok.c = "+" THEN 1 ELSE 0,
                                             !.hour = n, !.minute = -1])
        ELSE IF len \in {1, 2}
        THEN LegacyParse(ts, j, [read EXCEPT !.sign = IF tok.c = "+" THEN 1 ELSE 0,
                                             !.hour = n, !.minute = 0])
        ELSE IF len \in {3, 4}
        THEN LegacyParse(ts, j, [read EXCEPT !.sign = IF tok.c = "+" THEN 1 ELSE 0,
                                             !.hour = n \div 100, !.minute = n % 100])
        ELSE Failed
  IN IF i > Len(ts) THEN st
     ELSE IF tok.t = "number"
     THEN IF IsSymbol(T(i + 1), ":")
          THEN IF IsSymbol(T(i + 2), ":")
               THEN IF st.time # <<>> THEN Failed
                    ELSE LegacyParse(ts, i + 3, [read EXCEPT !.time = <<tok.n, 0>>])
               ELSE IF Len(st.time) >= 4 THEN Failed
               ELSE LegacyParse(ts, IF IsSymbol(T(i + 2), ".") THEN i + 3 ELSE i + 2,
                                [read EXCEPT !.time = Append(@, tok.n)])
          ELSE IF IsSymbol(T(i + 1), ".") THEN Number(i + 2, TRUE)
          ELSE Number(i + 1, FALSE)
     ELSE IF tok.t \in {"month", "ampm", "zone", "separator", "word"}
     THEN IF tok.t = "ampm" /\ st.time # <<>>
          THEN LegacyParse(ts, i + 1, [st EXCEPT !.hourOffset = tok.n])
          ELSE IF tok.t = "month"
          THEN LegacyParse(ts, IF IsSymbol(T(i + 1), "-") THEN i + 2 ELSE i + 1,
                           [st EXCEPT !.namedMonth = tok.n])
          ELSE IF tok.t = "zone" /\ st.hasReadNumber
          THEN LegacyParse(ts, i + 1,
                           [st EXCEPT !.sign = IF tok.n < 0 THEN 0 ELSE 1,
                                      !.hour = AbsI(tok.n), !.minute = 0])
          ELSE IF st.hasReadNumber \/ T(i + 1).t = "number" THEN Failed
          ELSE LegacyParse(ts, i + 1, st)
     ELSE IF IsAsciiSign(tok) /\ ((st.hour = 0 /\ st.minute = 0) \/ st.time # <<>>)
     THEN IF T(i + 1).t = "number" THEN Offset(T(i + 1).n, T(i + 1).len, i + 2)
          ELSE Offset(0, 0, i + 1)
     ELSE IF (IsAsciiSign(tok) \/ IsSymbol(tok, ")")) /\ st.hasReadNumber THEN Failed
     ELSE LegacyParse(ts, i + 1, st)

\* TimeZoneComposer::Write: the seconds of zh hours and zm minutes as the
\* unsigned 32-bit sum hour * 3600 + minute * 60 (its upper and lower 16
\* bits); the zone is written when the sum is at most 2^31 - 1.
ZoneSeconds(zh, zm) ==
  LET Halves(low, high) ==
        [hi |-> (high + low \div 65536) % 65536, lo |-> low % 65536]
  IN Halves((zh % 65536) * 3600 + zm * 60, (zh \div 65536) * 3600)

\* The Date of the year, month and day ymd, the hour, the time zone of zh
\* hours and zm minutes, and the minute, second and millisecond read.
WrittenDate(st, ymd, hour, zh, zm) ==
  LET T(i) == IF i <= Len(st.time) THEN st.time[i] ELSE 0
      \* the local seconds less the offset of total seconds east (sg = 1) or
      \* west (sg = -1) of UTC
      Shifted(total, sg) ==
        MakeDate(DaysFromCivil(ymd.y, ymd.m, 1) + ymd.d - 1
                   - sg * (total \div 86400)
                   + (hour * 3600 + T(2) * 60 + T(3) - sg * (total % 86400))
                       \div 86400,
                 ((hour * 3600 + T(2) * 60 + T(3) - sg * (total % 86400)) % 86400)
                   * 1000 + T(4))
      Zoned(z) ==
        IF z.hi >= 32768 THEN InvalidDate
        ELSE Shifted(z.hi * 65536 + z.lo, IF st.sign = 0 THEN -1 ELSE 1)
  IN IF \/ ~st.ok
        \/ ~(/\ Len(st.day) >= 1 /\ ymd.m >= 1 /\ ymd.m <= 12
             /\ ymd.d >= 1 /\ ymd.d <= 31)
        \/ ~(st.hourOffset # -1 => T(1) <= 12)
        \/ ~(\/ hour <= 23 /\ T(2) <= 59 /\ T(3) <= 59 /\ T(4) <= 999
             \/ hour = 24 /\ T(2) = 0 /\ T(3) = 0 /\ T(4) = 0)
     THEN InvalidDate
     ELSE IF ymd.y < -400000 \/ ymd.y > 400000 THEN InvalidDate
     ELSE IF st.sign = -1 THEN Shifted(0, 1)
     ELSE Zoned(ZoneSeconds(zh, zm))

\* DayComposer::Write, TimeComposer::Write and TimeZoneComposer::Write: the
\* Date the composers stand for.  The missing numbers of the day are 1 and
\* those of the time 0; a year from 0 to 99 outside the ISO form is moved,
\* and so is the hour by am or pm.
ComposedDate(st) ==
  LET Comp(i) == IF i <= Len(st.day) THEN st.day[i] ELSE 1
      IsDay(x) == x >= 1 /\ x <= 31
      Year(y) ==
        IF st.isIsoDate THEN y
        ELSE IF y >= 0 /\ y <= 49 THEN y + 2000
        ELSE IF y >= 50 /\ y <= 99 THEN y + 1900
        ELSE y
      T(i) == IF i <= Len(st.time) THEN st.time[i] ELSE 0
  IN WrittenDate(st,
       IF st.namedMonth = -1
       THEN IF st.isIsoDate \/ ~IsDay(Comp(1))
            THEN [y |-> Year(Comp(1)), m |-> Comp(2), d |-> Comp(3)]
            ELSE [y |-> Year(Comp(3)), m |-> Comp(1), d |-> Comp(2)]
       ELSE IF ~IsDay(Comp(1))
            THEN [y |-> Year(Comp(1)), m |-> st.namedMonth, d |-> Comp(2)]
            ELSE [y |-> Year(Comp(2)), m |-> st.namedMonth, d |-> Comp(1)],
       IF st.hourOffset = -1 THEN T(1) ELSE (T(1) % 12) + st.hourOffset,
       IF st.hour = -1 THEN 0 ELSE st.hour,
       IF st.minute = -1 THEN 0 ELSE st.minute)

\* Date.parse: the ISO part, then the legacy rules on what is left.
LegacyDate(es, ts) ==
  IF ~es.st.ok THEN InvalidDate
  ELSE ComposedDate(LegacyParse(ts, es.next,
         [es.st EXCEPT !.hasReadNumber = es.st.day # <<>>]))

DateOfTokens(ts) == LegacyDate(ParseES5DateTime(ts), ts)

DateParse(str) == DateOfTokens(Tokens(str, 1))

\* new Date(value) for a string or undefined.
NewDate(value) == IF ~IsString(value) THEN InvalidDate ELSE DateParse(value)

weekdays ==
  << <<"S","u","n","d","a","y">>, <<"M","o","n","d","a","y">>,
     <<"T","u","e","s","d","a","y">>, <<"W","e","d","n","e","s","d","a","y">>,
     <<"T","h","u","r","s","d","a","y">>, <<"F","r","i","d","a","y">>,
     <<"S","a","t","u","r","d","a","y">> >>

\* The decimal digits of n >= 0, at least width of them.
RECURSIVE ToDigits(_, _)
ToDigits(n, width) ==
  IF n < 10 /\ width <= 1 THEN <<Digits[n + 1]>>
  ELSE Append(ToDigits(n \div 10, width - 1), Digits[(n % 10) + 1])

Pad2(n) == ToDigits(n, 2)

\* format(date, pattern) for the four patterns the views use.  The caller
\* has checked date.ok: format throws RangeError on the Invalid Date.
Format(dt, pattern) ==
  CASE pattern = "MMM dd" -> MonthNames[dt.mo] \o <<" ">> \o Pad2(dt.d)
    [] pattern = "MMM yyyy" ->
         MonthNames[dt.mo] \o <<" ">> \o ToDigits(IF dt.y > 0 THEN dt.y ELSE 1 - dt.y, 4)
    [] pattern = "HH:00" -> Pad2(dt.h) \o <<":", "0", "0">>
    [] pattern = "EEEE" -> weekdays[GetDay(dt) + 1]

(***************************************************************************)
(* Number.prototype.toFixed and the Number::toString it falls back on.     *)
(***************************************************************************)
\* b * 2^d and floor(b / 2^d) of a big integer b
BigShiftLeft(b, d) == [i \in 1..(d \div 14) |-> 0] \o BigTimes(b, 2^(d % 14), 0)

BigShiftRight(b, d) ==
  IF d \div 14 >= Len(b) THEN <<>>
  ELSE BigDivSmall(SubSeq(b, d \div 14 + 1, Len(b)), 2^(d % 14)).q

\* a + b, and a - b for a >= b
BigSum(a, b) ==
  BigTrim(Carried([i \in 1..MaxI(Len(a), Len(b)) |-> Limb(a, i) + Limb(b, i)], 1, 0))

BigDiff(a, b) == BigTrim(Carried([i \in 1..Len(a) |-> a[i] - Limb(b, i)], 1, 0))

\* a < b, on the digits 1..i when the digits above them are equal
RECURSIVE BigLessFrom(_, _, _)
BigLessFrom(a, b, i) ==
  IF i = 0 THEN FALSE
  ELSE IF Limb(a, i) # Limb(b, i) THEN Limb(a, i) < Limb(b, i)
  ELSE BigLessFrom(a, b, i - 1)

BigLess(a, b) == BigLessFrom(a, b, MaxI(Len(a), Len(b)))

\* The decimal digits of a big integer, none for 0.
RECURSIVE BigDecimal(_)
BigDecimal(b) ==
  IF BigTrim(b) = <<>> THEN <<>>
  ELSE Append(BigDecimal(BigDivSmall(b, 10).q), Digits[BigDivSmall(b, 10).r + 1])

\* toFixed step 10.a: the integer n for which n / 10^f - |x| is as close to
\* zero as possible, the larger of two; floor(|x| * 10^f + 1/2), for f <= 3.
FixedPoint(x, f) ==
  LET twice == BigShiftRight(BigTimes(LimbsOf(x.h, x.l), 2 * 10^f, 0), -x.e)
  IN IF x.e >= 0
     THEN BigTrim(BigShiftLeft(BigTimes(LimbsOf(x.h, x.l), 10^f, 0), x.e))
     ELSE BigTrim(BigTimes(BigDivSmall(twice, 2).q, 1, BigDivSmall(twice, 2).r))

\* The digits ds of n with zeros before them up to f + 1 digits and a point
\* before the last f.
FixedText(ds, f) ==
  LET padded == [i \in 1..(f + 1 - Len(ds)) |-> "0"] \o ds
  IN IF f = 0 THEN padded
     ELSE SubSeq(padded, 1, Len(padded) - f) \o <<".">>
          \o SubSeq(padded, Len(padded) - f + 1, Len(padded))

\* Number::toString steps 5 and 11 for a number of 22 digits or more: the
\* integer s of the fewest digits with s * 10^p read back as the number,
\* the nearest to it of several and the even one of two.  A search state t
\* holds the bounds lo..hi of such s at the power p, c = floor(X / 10^p),
\* the digit top of X below 10^p and whether a digit below top is not 0.
NearestIn(t) ==
  IF BigLess(t.c, t.lo) THEN BigSum(t.c, <<1>>)
  ELSE IF BigLess(t.hi, BigSum(t.c, <<1>>)) THEN t.c
  ELSE IF t.top > 5 \/ (t.top = 5 /\ (t.sticky \/ Limb(t.c, 1) % 2 = 1))
  THEN BigSum(t.c, <<1>>)
  ELSE t.c

NextPower(t) ==
  [lo |-> BigDivSmall(BigSum(t.lo, <<9>>), 10).q, hi |-> BigDivSmall(t.hi, 10).q,
   c |-> BigDivSmall(t.c, 10).q, top |-> BigDivSmall(t.c, 10).r,
   sticky |-> t.sticky \/ t.top # 0, p |-> t.p + 1]

RECURSIVE ShortestFrom(_)
ShortestFrom(t) ==
  IF t.c = <<>> \/ BigLess(NextPower(t).hi, NextPower(t).lo)
  THEN [s |-> NearestIn(t), p |-> t.p]
  ELSE ShortestFrom(NextPower(t))

\* The integers that read back as x = X >= 10^21: X - 2^(e - 1) .. X + 2^(e - 1),
\* the lower distance halved at a power of two, the ends left out for an odd
\* mantissa.
Shortest(x) ==
  LET X == BigTrim(BigShiftLeft(LimbsOf(x.h, x.l), x.e))
      below == IF x.h = 2^24 /\ x.l = 0 THEN x.e - 2 ELSE x.e - 1
      open == x.l % 2
  IN ShortestFrom([lo |-> BigSum(BigDiff(X, BigShiftLeft(<<1>>, below)), <<open>>),
                   hi |-> BigDiff(BigSum(X, BigShiftLeft(<<1>>, x.e - 1)), <<open>>),
                   c |-> X, top |-> 0, sticky |-> FALSE, p |-> 0])

\* d.ddde+n for the digits ds of s and the power p
ExponentialText(ds, p) ==
  <<Head(ds)>> \o (IF Len(ds) > 1 THEN <<".">> \o Tail(ds) ELSE <<>>)
  \o <<"e", "+">> \o ToDigits(Len(ds) + p - 1, 1)

TenTo21 == ParseFloat(<<"1", "e", "2", "1">>)

\* Number.prototype.toFixed(f) for 0 <= f <= 3
ToFixed(x, f) ==
  IF x.k = "nan" THEN <<"N", "a", "N">>
  ELSE IF x.k = "inf"
  THEN (IF x.s < 0 THEN <<"-">> ELSE <<>>) \o <<"I", "n", "f", "i", "n", "i", "t", "y">>
  ELSE IF GreaterEq(Abs(x), TenTo21)
  THEN (IF x.s < 0 THEN <<"-">> ELSE <<>>)
       \o ExponentialText(BigDecimal(Shortest(x).s), Shortest(x).p)
  ELSE (IF x.s < 0 /\ ~IsZero(x) THEN <<"-">> ELSE <<>>)
       \o FixedText(BigDecimal(FixedPoint(x, f)), f)

\* Math.trunc of getRoundingMethod: the whole part, and 0 for a -0.
TruncWhole(s, w) ==
  IF w.h = 0 /\ w.l = 0 THEN Zero ELSE Justified(s, w.h, w.l, 0)

Trunc(x) ==
  IF x.k # "fin" THEN x
  ELSE IF IsZero(x) THEN Zero
  ELSE IF x.e >= 0 THEN x
  ELSE TruncWhole(x.s, ShiftRight(x.h, x.l, -x.e))

\* Math.trunc((+left - +right) / unit) in the arithmetic of numbers: NaN
\* when either date is invalid.
DifferenceIn(l, r, unit) ==
  Trunc(Div(Sub(GetTime(l), GetTime(r)), Int2Num(unit)))

\* differenceInMinutes(left, right)
differenceInMinutes(l, r) == DifferenceIn(l, r, 60000)

\* differenceInHours(left, right)
differenceInHours(l, r) == DifferenceIn(l, r, 3600000)

(***************************************************************************)
(* Helpers shared by the views.                                            *)
(***************************************************************************)
Threw == [threw |-> TRUE]

\* Math.abs(t.customerFacingAmount || 0)
AbsAmount(t) == Abs(Or(t.customerFacingAmount, Zero))

\* Does format(parseISO(t.created), ...) throw for some record of the list?
SomeInvalidCreated(txs) == \E i \in 1..Len(txs) : ~parseISO(txs[i].created).ok

\* Position of the entry with the given key in a keyed list, 0 if none.
RECURSIVE KeyIndex(_, _, _)
KeyIndex(acc, key, i) ==
  IF i > Len(acc) THEN 0
  ELSE IF acc[i].key = key THEN i
  ELSE KeyIndex(acc, key, i + 1)

\* Array.prototype.sort of an array of fewer than 64 elements, none of them
\* undefined.  The comparator is given by its outcomes on the elements:
\* lt[i][j] says that its result on (xs[i], xs[j]) is negative (a result of
\* NaN counts as 0, hence as not negative).  The engine takes the longest
\* run at the start of the array that is ascending (no element less than
\* its predecessor) or strictly descending (every element less than its
\* predecessor), reverses a descending run, and then inserts each remaining
\* element at the place a binary search finds for it.  With a consistent
\* comparator this is the stable sort; with an inconsistent one (NaN among
\* numbers) it is the order the engine produces.

\* Length of the run that starts an array of n elements, given that it
\* reaches position i.
RECURSIVE RunLength(_, _, _, _)
RunLength(lt, n, descending, i) ==
  IF i = n THEN i
  ELSE IF descending = lt[i + 1][i] THEN RunLength(lt, n, descending, i + 1)
  ELSE i

\* Number of elements of the sorted list that stay before the element at
\* position x: the binary search over the positions left + 1 .. right.
RECURSIVE SearchInsertion(_, _, _, _, _)
SearchInsertion(lt, sorted, x, left, right) ==
  IF left >= right THEN left
  ELSE LET mid == left + (right - left) \div 2 IN
       IF lt[x][sorted[mid + 1]]
       THEN SearchInsertion(lt, sorted, x, left, mid)
       ELSE SearchInsertion(lt, sorted, x, mid + 1, right)

InsertSorted(lt, sorted, x) ==
  LET left == SearchInsertion(lt, sorted, x, 0, Len(sorted)) IN
  SubSeq(sorted, 1, left) \o <<x>> \o SubSeq(sorted, left + 1, Len(sorted))

RECURSIVE SortFrom(_, _, _, _)
SortFrom(lt, sorted, n, i) ==
  IF i > n THEN sorted
  ELSE SortFrom(lt, InsertSorted(lt, sorted, i), n, i + 1)

Reverse(xs) == [i \in 1..Len(xs) |-> xs[Len(xs) + 1 - i]]

\* The positions 1 .. n of the elements, in the order of the sorted array.
SortedPositions(lt, n) ==
  IF n < 2 THEN [i \in 1..n |-> i]
  ELSE LET descending == lt[2][1]
           k == RunLength(lt, n, descending, 2)
           run == [i \in 1..k |-> i]
       IN SortFrom(lt, IF descending THEN Reverse(run) ELSE run, n, k + 1)

\* The elements of xs at the positions ps.
ElementsAt(xs, ps) == ArrayOf([k \in 1..Len(ps) |-> xs[ps[k]]])

Sort(lt, xs) == ElementsAt(xs, SortedPositions(lt, Len(xs)))

\* The outcomes of the comparators of the views on the keys ks of the
\* elements: (a, b) => a - b and (a, b) => b - a on numbers,
\* (a, b) => b.count - a.count on counts, the default sort and localeCompare
\* on labels, (a, b) => a.getTime() - b.getTime() and its reverse on dates.
NumbersAscending(ks) ==
  [i \in 1..Len(ks) |-> [j \in 1..Len(ks) |-> Less(ks[i], ks[j])]]

NumbersDescending(ks) ==
  [i \in 1..Len(ks) |-> [j \in 1..Len(ks) |-> Greater(ks[i], ks[j])]]

CountsDescending(ks) ==
  [i \in 1..Len(ks) |-> [j \in 1..Len(ks) |-> ks[i] > ks[j]]]

StringsAscending(ks) ==
  [i \in 1..Len(ks) |-> [j \in 1..Len(ks) |-> StrLess(ks[i], ks[j])]]

DatesAscending(ks) ==
  [i \in 1..Len(ks) |-> [j \in 1..Len(ks) |-> Earlier(ks[i], ks[j])]]

DatesDescending(ks) ==
  [i \in 1..Len(ks) |-> [j \in 1..Len(ks) |-> Earlier(ks[j], ks[i])]]

\* sort((a, b) => a - b)
SortNumbers(xs) == Sort(NumbersAscending(xs), xs)

\* Variant: the lower of the two middle elements of an even-length array.
MiddleElementLower(sorted) ==
  IF sorted = <<>> THEN UndefNum ELSE sorted[(Len(sorted) - 1) \div 2 + 1]

\* xs[Math.floor(xs.length / 2)] of a sorted array; undefined when empty.
MiddleElement(sorted) ==
  IF sorted = <<>> THEN UndefNum ELSE sorted[Len(sorted) \div 2 + 1]

\* Math.min(...xs) and Math.max(...xs); -0 is below +0.
RECURSIVE MinFrom(_, _, _)
MinFrom(m, xs, i) ==
  IF i > Len(xs) THEN m
  ELSE IF IsNaN(m) \/ IsNaN(ToNumber(xs[i])) THEN NaN
  ELSE MinFrom(IF Less(xs[i], m) \/ (IsZero(m) /\ ToNumber(xs[i]) = ZeroOf(-1))
               THEN ToNumber(xs[i]) ELSE m,
               xs, i + 1)

MathMin(xs) == MinFrom(PosInf, xs, 1)

RECURSIVE MaxFrom(_, _, _)
MaxFrom(m, xs, i) ==
  IF i > Len(xs) THEN m
  ELSE IF IsNaN(m) \/ IsNaN(ToNumber(xs[i])) THEN NaN
  ELSE MaxFrom(IF Greater(xs[i], m) \/ (IsZero(m) /\ ToNumber(xs[i]) = Zero)
               THEN ToNumber(xs[i]) ELSE m,
               xs, i + 1)

MathMax(xs) == MaxFrom(NegInf, xs, 1)

\* The position of the element a reduce without initial value keeps when
\* the current element replaces the kept one if better[current][kept].
RECURSIVE PickFrom(_, _, _, _)
PickFrom(better, kept, n, i) ==
  IF i > n THEN kept
  ELSE PickFrom(better, IF better[i][kept] THEN i ELSE kept, n, i + 1)

\* The caller has checked xs is not empty.
Pick(better, xs) == xs[PickFrom(better, 1, Len(xs), 2)]

\* sum of e.count and of e.volume over a list of groups
RECURSIVE CountSum(_, _)
CountSum(gs, i) == IF i > Len(gs) THEN 0 ELSE gs[i].count + CountSum(gs, i + 1)

Volumes(gs) == [i \in 1..Len(gs) |-> gs[i].volume]
Keys(gs) == [i \in 1..Len(gs) |-> gs[i].key]
CountsOf(gs) == [i \in 1..Len(gs) |-> gs[i].count]
RawDates(gs) == [i \in 1..Len(gs) |-> gs[i].rawDate]

\* ((current - previous) / previous) * 100
Change(current, previous) == Mul(Div(Sub(current, previous), previous), Int2Num(100))

(***************************************************************************)
(* Grouped folds.  A JavaScript object used as a map from a label to an    *)
(* accumulator is the list of its entries in the order of Object.keys,     *)
(* Object.values and Object.entries: the labels that are array indices     *)
(* first, in increasing numeric order, then the other labels in insertion  *)
(* order.  The label is the field `key'.                                   *)
(***************************************************************************)
\* The key is an array index: the decimal numeral, without leading zeros, of
\* an integer from 0 to 2^32 - 2.
IsArrayIndex(key) ==
  /\ key # <<>>
  /\ \A i \in 1..Len(key) : IsDigit(key[i])
  /\ Len(key) = 1 \/ key[1] # "0"
  /\ \/ Len(key) < 10
     \/ Len(key) = 10
        /\ ~StrLess(<<"4", "2", "9", "4", "9", "6", "7", "2", "9", "4">>, key)

\* Numeric order of two array indices.
IndexLess(a, b) == Len(a) < Len(b) \/ (Len(a) = Len(b) /\ StrLess(a, b))

\* Number of entries that precede a new entry with the given key.
EntriesBefore(acc, key) ==
  IF IsArrayIndex(key)
  THEN Cardinality({i \in 1..Len(acc) :
                      IsArrayIndex(acc[i].key) /\ IndexLess(acc[i].key, key)})
  ELSE Len(acc)

\* acc[key] = fresh for a key the object does not have.
PutEntry(acc, fresh) ==
  LET n == EntriesBefore(acc, fresh.key) IN
  SubSeq(acc, 1, n) \o <<fresh>> \o SubSeq(acc, n + 1, Len(acc))

\* Variant: the average is taken before the record is counted.
WithAvgSizeStale(e) == [e EXCEPT !.avgSize = Div(e.volume, Int2Num(e.count + 1))]

\* Variant: a group without records keeps the average 0.
WithAvgSizeGuarded(e) ==
  IF e.count = 0 THEN e ELSE [e EXCEPT !.avgSize = Div(e.volume, Int2Num(e.count))]

\* data.avgSize = data.volume / data.count
WithAvgSize(e) == [e EXCEPT !.avgSize = Div(e.volume, Int2Num(e.count))]

\* Variant: the record that creates a group is not counted.
AccumulateFirstUncounted(acc, fresh, amount) ==
  LET Into(a, j, isNew) ==
        [a EXCEPT ![j] = [@ EXCEPT !.count = IF isNew THEN @ ELSE @ + 1,
                                   !.volume = Add(@, amount)]]
      Found(i) ==
        IF i = 0
        THEN Into(PutEntry(acc, fresh), EntriesBefore(acc, fresh.key) + 1, TRUE)
        ELSE Into(acc, i, FALSE)
  IN Found(KeyIndex(acc, fresh.key, 1))

\* if (!acc[key]) acc[key] = fresh; acc[key].volume += amount; acc[key].count++
Accumulate(acc, fresh, amount) ==
  LET Into(a, j) ==
        [a EXCEPT ![j] = [@ EXCEPT !.count = @ + 1, !.volume = Add(@, amount)]]
      Found(i) ==
        IF i = 0
        THEN Into(PutEntry(acc, fresh), EntriesBefore(acc, fresh.key) + 1)
        ELSE Into(acc, i)
  IN Found(KeyIndex(acc, fresh.key, 1))

\* The same with avgSize refreshed on the touched entry at every step.
AccumulateAvg(acc, fresh, amount) ==
  LET Refresh(a) == [a EXCEPT ![KeyIndex(a, fresh.key, 1)] = WithAvgSize(@)]
  IN Refresh(Accumulate(acc, fresh, amount))

(***************************************************************************)
(* TransactionChart: daily activity.                                       *)
(***************************************************************************)
RECURSIVE dailyData(_, _, _)
dailyData(acc, txs, i) ==
  IF i > Len(txs) THEN acc
  ELSE LET Fresh(rawDate) ==
             [key |-> Format(rawDate, "MMM dd"), volume |-> Zero,
              count |-> 0, avgSize |-> Zero, rawDate |-> rawDate]
       IN dailyData(AccumulateAvg(acc, Fresh(parseISO(txs[i].created)),
                                  AbsAmount(txs[i])),
                    txs, i + 1)

TransactionChart(txs) ==
  IF SomeInvalidCreated(txs) THEN Threw
  ELSE
    LET Totals(sortedDays, n, totalVolume, totalCount) ==
          IF n = 0 THEN Threw  \* latestDay.volume of undefined
          ELSE [threw |-> FALSE,
                sortedDays |-> sortedDays,
                labels |-> Keys(sortedDays),
                latestDay |-> sortedDays[n],
                volumeChange |->
                  IF n >= 2
                  THEN Change(sortedDays[n].volume, sortedDays[n - 1].volume)
                  ELSE Zero,
                countChange |->
                  IF n >= 2
                  THEN Change(Int2Num(sortedDays[n].count),
                              Int2Num(sortedDays[n - 1].count))
                  ELSE Zero,
                totalVolume |-> totalVolume,
                totalCount |-> totalCount,
                avgDailyVolume |-> Div(totalVolume, Int2Num(n)),
                avgDailyCount |-> Div(Int2Num(totalCount), Int2Num(n))]
        Days(sortedDays) ==
          Totals(sortedDays, Len(sortedDays), Sum(Volumes(sortedDays)),
                 CountSum(sortedDays, 1))
        Groups(groups) == Days(Sort(DatesAscending(RawDates(groups)), groups))
    IN Groups(dailyData(<<>>, txs, 1))

(***************************************************************************)
(* TransactionVelocity: hour of day.                                       *)
(***************************************************************************)
RECURSIVE hourlyData(_, _, _)
hourlyData(acc, txs, i) ==
  IF i > Len(txs) THEN acc
  ELSE LET fresh == [key |-> Format(parseISO(txs[i].created), "HH:00"),
                     count |-> 0, volume |-> Zero, avgSize |-> Zero]
       IN hourlyData(AccumulateAvg(acc, fresh, AbsAmount(txs[i])), txs, i + 1)

Counts(gs) == [i \in 1..Len(gs) |-> Int2Num(gs[i].count)]

\* sum of (x - mean)^2 over xs, divided by xs.length
Variance(xs, mean) ==
  Div(Sum([i \in 1..Len(xs) |-> Mul(Sub(xs[i], mean), Sub(xs[i], mean))]),
      Int2Num(Len(xs)))

TransactionVelocity(txs) ==
  IF SomeInvalidCreated(txs) THEN Threw
  ELSE
    LET Stats(groups, byHour, n, totalTransactions, counts, avgTransactionsPerHour,
              byCount) ==
          [threw |-> FALSE,
           hourlyData |-> groups,
           labels |-> Keys(byHour),
           counts |-> counts,
           volumes |-> Volumes(byHour),
           peakHour |-> Pick(CountsDescending(CountsOf(byHour)), byHour),
           peakVolumeHour |-> Pick(NumbersDescending(Volumes(byHour)), byHour),
           totalTransactions |-> totalTransactions,
           avgTransactionsPerHour |-> avgTransactionsPerHour,
           medianTransactionsPerHour |-> MiddleElement(SortNumbers(counts)),
           hourlyVariance |-> Variance(counts, avgTransactionsPerHour),
           peakHours |-> SubSeq(byCount, 1, IF n < 5 THEN n ELSE 5),  \* slice(0, 5)
           sortedHours |-> byCount]
        Totals(groups, byHour, n, totalTransactions) ==
          \* the Peak Hours table sorts sortedHours in place
          Stats(groups, byHour, n, totalTransactions, Counts(byHour),
                Div(Int2Num(totalTransactions), Int2Num(n)),
                Sort(CountsDescending(CountsOf(byHour)), byHour))
        Hours(groups, byHour) ==
          IF byHour = <<>>
          THEN Threw  \* reduce of an empty array with no initial value
          ELSE Totals(groups, byHour, Len(byHour), CountSum(byHour, 1))
        Groups(groups) ==
          Hours(groups, Sort(StringsAscending(Keys(groups)), groups))
    IN Groups(hourlyData(<<>>, txs, 1))

(***************************************************************************)
(* WeekdayAnalysis.                                                        *)
(***************************************************************************)
weekdayInit ==
  [i \in 1..7 |-> [key |-> weekdays[i], count |-> 0, volume |-> Zero,
                   avgSize |-> Zero]]

RECURSIVE weekdayData(_, _, _)
weekdayData(acc, txs, i) ==
  IF i > Len(txs) THEN acc
  ELSE LET day == Format(parseISO(txs[i].created), "EEEE")
       IN weekdayData(Accumulate(acc, [key |-> day], AbsAmount(txs[i])),
                      txs, i + 1)

WeekdayAnalysis(txs) ==
  IF SomeInvalidCreated(txs) THEN Threw
  ELSE
    LET Totals(groups, totalTransactions) ==
          [threw |-> FALSE,
           weekdayData |-> groups,
           labels |-> weekdays,
           counts |-> Counts(groups),
           volumes |-> Volumes(groups),
           peakDay |-> Pick(CountsDescending(CountsOf(groups)), groups),
           totalTransactions |-> totalTransactions,
           totalVolume |-> Sum(Volumes(groups)),
           avgDailyTransactions |-> Div(Int2Num(totalTransactions), Int2Num(7))]
        Groups(groups) == Totals(groups, CountSum(groups, 1))
        Folded(folded) == Groups(ArrayOf([i \in 1..7 |-> WithAvgSize(folded[i])]))
    IN Folded(weekdayData(weekdayInit, txs, 1))

(***************************************************************************)
(* MonthlyVolumeTrends.                                                    *)
(***************************************************************************)
RECURSIVE monthlyData(_, _, _)
monthlyData(acc, txs, i) ==
  IF i > Len(txs) THEN acc
  ELSE LET fresh == [key |-> Format(parseISO(txs[i].created), "MMM yyyy"),
                     volume |-> Zero, count |-> 0, avgSize |-> Zero,
                     growth |-> Zero]
       IN monthlyData(Accumulate(acc, fresh, AbsAmount(txs[i])), txs, i + 1)

\* Object.keys(monthlyData).sort(): the default sort, by code units.
SortedMonths(groups) == Sort(StringsAscending(Keys(groups)), Keys(groups))

\* The entry of a month after the forEach over the sorted months.
MonthEntry(groups, months, index) ==
  LET Entry(e) ==
        [WithAvgSize(e) EXCEPT
           !.growth =
             IF index > 1
             THEN Change(e.volume,
                         groups[KeyIndex(groups, months[index - 1], 1)].volume)
             ELSE e.growth]
  IN Entry(groups[KeyIndex(groups, months[index], 1)])

MonthlyVolumeTrends(txs) ==
  IF SomeInvalidCreated(txs) THEN Threw
  ELSE
    LET Totals(months, n, byMonth, totalVolume, growthRates) ==
          [threw |-> FALSE,
           months |-> months,
           monthlyData |-> byMonth,
           volumes |-> Volumes(byMonth),
           totalVolume |-> totalVolume,
           avgMonthlyVolume |-> Div(totalVolume, Int2Num(n)),
           latestGrowth |-> IF n = 0 THEN Zero ELSE Or(byMonth[n].growth, Zero),
           growthRates |-> growthRates,
           avgGrowthRate |-> Div(Sum(growthRates), Int2Num(Len(growthRates)))]
        ByMonth(groups, months, n, byMonth) ==
          Totals(months, n, byMonth, Sum(Volumes(groups)),
                 [i \in 1..(IF n = 0 THEN 0 ELSE n - 1) |-> byMonth[i + 1].growth])
        Months(groups, months) ==
          ByMonth(groups, months, Len(months),
                  ArrayOf([i \in 1..Len(months) |-> MonthEntry(groups, months, i)]))
        Groups(groups) == Months(groups, SortedMonths(groups))
    IN Groups(monthlyData(<<>>, txs, 1))

(***************************************************************************)
(* CurrencyDistributionChart.                                              *)
(***************************************************************************)
UNKNOWN == <<"U", "N", "K", "N", "O", "W", "N">>

\* t.customerFacingCurrency?.toUpperCase() || 'UNKNOWN'
CurrencyKey(t) ==
  IF TruthyStr(t.customerFacingCurrency)
  THEN ToUpperCase(t.customerFacingCurrency)
  ELSE UNKNOWN

RECURSIVE currencyData(_, _, _)
currencyData(acc, txs, i) ==
  IF i > Len(txs) THEN acc
  ELSE LET fresh == [key |-> CurrencyKey(txs[i]), volume |-> Zero,
                     count |-> 0, avgSize |-> Zero,
                     percentageVolume |-> Zero, percentageCount |-> Zero]
       IN currencyData(Accumulate(acc, fresh, AbsAmount(txs[i])), txs, i + 1)

CurrencyDistributionChart(txs) ==
  LET Sorted(groups, sortedCurrencies, totalVolume, totalCount) ==
        [threw |-> FALSE,
         currencyData |-> groups,
         sortedCurrencies |-> sortedCurrencies,
         labels |-> Keys(sortedCurrencies),
         totalVolume |-> totalVolume,
         totalCount |-> totalCount,
         currencyCount |-> Len(sortedCurrencies),
         avgTransactionSize |-> Div(totalVolume, Int2Num(totalCount))]
      Groups(groups, totalVolume, totalCount) ==
        Sorted(groups, Sort(NumbersDescending(Volumes(groups)), groups),
               totalVolume, totalCount)
      Totals(folded, totalVolume, totalCount) ==
        Groups([i \in 1..Len(folded) |->
                  [WithAvgSize(folded[i]) EXCEPT
                     !.percentageVolume =
                       Mul(Div(folded[i].volume, totalVolume), Int2Num(100)),
                     !.percentageCount =
                       Mul(Div(Int2Num(folded[i].count), Int2Num(totalCount)),
                           Int2Num(100))]],
               totalVolume, totalCount)
      Folded(folded) == Totals(folded, Sum(Volumes(folded)), CountSum(folded, 1))
  IN Folded(currencyData(<<>>, txs, 1))

(***************************************************************************)
(* ValueSegmentation.                                                      *)
(***************************************************************************)
segments ==
  << [key |-> "Micro (< $100)", lo |-> Int2Num(0), hi |-> Int2Num(100),
      count |-> 0, volume |-> Zero],
     [key |-> "Small ($100-500)", lo |-> Int2Num(100), hi |-> Int2Num(500),
      count |-> 0, volume |-> Zero],
     [key |-> "Medium ($500-1K)", lo |-> Int2Num(500), hi |-> Int2Num(1000),
      count |-> 0, volume |-> Zero],
     [key |-> "Large ($1K-5K)", lo |-> Int2Num(1000), hi |-> Int2Num(5000),
      count |-> 0, volume |-> Zero],
     [key |-> "Enterprise (> $5K)", lo |-> Int2Num(5000), hi |-> PosInf,
      count |-> 0, volume |-> Zero] >>

\* Variant: the upper bound of a segment belongs to it, the lower does not.
InRangeUpperClosed(amount, s) == Greater(amount, s.lo) /\ LessEq(amount, s.hi)

\* s => amount >= s.range[0] && amount < s.range[1]
InRange(amount, s) == GreaterEq(amount, s.lo) /\ Less(amount, s.hi)

\* segments.find(...): position of the first segment in range, 0 if none.
RECURSIVE FindSegment(_, _, _)
FindSegment(segs, amount, i) ==
  IF i > Len(segs) THEN 0
  ELSE IF InRange(amount, segs[i]) THEN i
  ELSE FindSegment(segs, amount, i + 1)

\* The body of the forEach: one record folded into the segments.
Categorize(segs, t) ==
  LET amount == AbsAmount(t)
      j == FindSegment(segs, amount, 1)
  IN IF j = 0 THEN segs
     ELSE [segs EXCEPT ![j] = [@ EXCEPT !.count = @ + 1,
                                        !.volume = Add(@, amount)]]

RECURSIVE CategorizeAll(_, _, _)
CategorizeAll(segs, txs, i) ==
  IF i > Len(txs) THEN segs
  ELSE CategorizeAll(Categorize(segs, txs[i]), txs, i + 1)

ValueSegmentation(txs) ==
  LET segs == CategorizeAll(segments, txs, 1)
  IN [threw |-> FALSE,
      segments |-> segs,
      totalTransactions |-> CountSum(segs, 1),
      totalVolume |-> Sum(Volumes(segs))]

(***************************************************************************)
(* ExchangeRateAnalysis.                                                   *)
(***************************************************************************)
usd == <<"u", "s", "d">>

\* Variant: the currency of the record is not looked at.
IsUsdRateAnyCurrency(t) == Truthy(t.customerFacingAmount)

\* t => t.customerFacingAmount && t.customerFacingCurrency === 'usd'
IsUsdRate(t) == Truthy(t.customerFacingAmount) /\ t.customerFacingCurrency = usd

\* Array.prototype.filter: keep[i] says that
\* the callback's result on xs[i] is truthy.
RECURSIVE Filter(_, _, _)
Filter(keep, xs, i) ==
  IF i > Len(xs) THEN <<>>
  ELSE (IF keep[i] THEN <<xs[i]>> ELSE <<>>) \o Filter(keep, xs, i + 1)

\* The entry mapped from one record that passed the filter.
ExchangeRateData(t) ==
  LET Dated(rawDate) ==
        [key |-> Format(rawDate, "MMM dd"),
         rate |-> Abs(Div(t.amount, Or(t.customerFacingAmount, Int2Num(1)))),
         volume |-> Abs(Or(t.customerFacingAmount, Zero)),
         count |-> 1,
         rawDate |-> rawDate]
  IN Dated(parseISO(t.created))

Rates(es) == [i \in 1..Len(es) |-> es[i].rate]

calculateRateMetrics(rates) ==
  LET Around(mean) ==
        [mean |-> mean,
         median |-> MiddleElement(SortNumbers(rates)),
         variance |-> Variance(rates, mean),
         min |-> MathMin(rates),
         max |-> MathMax(rates)]
  IN Around(Div(Sum(rates), Int2Num(Len(rates))))

\* reduce((sum, r) => sum + r.rate * r.volume, 0) / reduce((sum, r) => sum + r.volume, 0)
VolumeWeighted(es) ==
  Div(Sum([i \in 1..Len(es) |-> Mul(es[i].rate, es[i].volume)]),
      Sum(Volumes(es)))

ExchangeRateAnalysis(txs) ==
  LET Result(exchangeRates, rates, metrics, latestRate, previousRate) ==
        IF metrics.median = UndefNum THEN Threw  \* metrics.median.toFixed(2)
        ELSE [threw |-> FALSE,
              exchangeRates |-> exchangeRates,
              labels |-> Keys(exchangeRates),
              rates |-> rates,
              latestRate |-> latestRate,
              previousRate |-> previousRate,
              rateChange |-> Change(latestRate, previousRate),
              metrics |-> metrics,
              volumeWeightedRate |-> VolumeWeighted(exchangeRates)]
      Latest(exchangeRates, n, rates, latestRate) ==
        Result(exchangeRates, rates, calculateRateMetrics(rates), latestRate,
               IF n >= 2 THEN Or(rates[n - 1], latestRate) ELSE latestRate)
      Mapped(exchangeRates, n, rates) ==
        Latest(exchangeRates, n, rates, IF n >= 1 THEN Or(rates[n], Zero) ELSE Zero)
      Sorted(exchangeRates) ==
        Mapped(exchangeRates, Len(exchangeRates), Rates(exchangeRates))
      Dated(exchangeRates) ==
        Sorted(Sort(DatesAscending(RawDates(exchangeRates)), exchangeRates))
      Kept(kept) ==
        IF SomeInvalidCreated(kept) THEN Threw
        ELSE Dated(ArrayOf([i \in 1..Len(kept) |-> ExchangeRateData(kept[i])]))
  IN Kept(Filter([i \in 1..Len(txs) |-> IsUsdRate(txs[i])], txs, 1))

(***************************************************************************)
(* ProcessingEfficiency.                                                   *)
(***************************************************************************)
\* calculateProcessingTime (the same function in ProcessingEfficiency and
\* in ProcessingTimeMetrics)
calculateProcessingTime(t) ==
  IF ~TruthyStr(t.created) \/ ~TruthyStr(t.availableOn) THEN Zero
  ELSE differenceInMinutes(parseISO(t.availableOn), parseISO(t.created))

calculateMetrics(times) ==
  LET count == Len(times)
      totalTime == Sum(times)
      avgTime == Div(totalTime, Int2Num(count))
  IN [count |-> count,
      totalTime |-> totalTime,
      avgTime |-> avgTime,
      minTime |-> MathMin(times),
      maxTime |-> MathMax(times),
      variance |-> Variance(times, avgTime)]

\* The numeric members of intervals = [5, 15, 30, 60, 120, 'More'].
intervals == <<5, 15, 30, 60, 120>>

\* intervals.find(i => typeof i === 'number' && time <= i) || 'More':
\* the position of the bucket, 6 for 'More'.
RECURSIVE FindIntervalStrict(_, _)
FindIntervalStrict(time, i) ==
  IF i > Len(intervals) THEN Len(intervals) + 1
  ELSE IF Less(time, Int2Num(intervals[i])) THEN i
  ELSE FindIntervalStrict(time, i + 1)

RECURSIVE FindInterval(_, _)
FindInterval(time, i) ==
  IF i > Len(intervals) THEN Len(intervals) + 1
  ELSE IF LessEq(time, Int2Num(intervals[i])) THEN i
  ELSE FindInterval(time, i + 1)

\* The count of each bucket, distribution[i] || 0.
Distribution(times) ==
  [b \in 1..(Len(intervals) + 1) |->
     Cardinality({i \in 1..Len(times) : FindInterval(times[i], 1) = b})]

\* transactions.filter(t => t.created && t.availableOn).map(calculateProcessingTime)
ProcessingTimes(txs) ==
  LET Kept(kept) ==
        ArrayOf([i \in 1..Len(kept) |-> calculateProcessingTime(kept[i])])
  IN Kept(Filter([i \in 1..Len(txs) |->
                    TruthyStr(txs[i].created) /\ TruthyStr(txs[i].availableOn)],
                 txs, 1))

ProcessingEfficiency(txs) ==
  LET Fast(processingTimes, fastProcessing) ==
        [threw |-> FALSE,
         \* the array the view built, sorted in place for the median
         processingTimes |-> SortNumbers(processingTimes),
         metrics |-> calculateMetrics(processingTimes),
         distribution |-> Distribution(processingTimes),
         fastProcessing |-> fastProcessing,
         fastProcessingRate |->
           Mul(Div(Int2Num(fastProcessing), Int2Num(Len(processingTimes))),
               Int2Num(100)),
         medianTime |-> MiddleElement(SortNumbers(processingTimes))]
      Times(processingTimes) ==
        Fast(processingTimes,
             Len(Filter([i \in 1..Len(processingTimes) |->
                           LessEq(processingTimes[i], Int2Num(15))],
                        processingTimes, 1)))
  IN Times(ProcessingTimes(txs))

(***************************************************************************)
(* ProcessingTimeMetrics.                                                  *)
(***************************************************************************)
\* The reduce of calculateDailyMetrics: the positive processing times of
\* each day, a day being created on its first record.
RECURSIVE dailyGroups(_, _, _)
dailyGroups(acc, txs, i) ==
  IF i > Len(txs) THEN acc
  ELSE
    LET Timed(a, j, processingTime) ==
          IF Greater(processingTime, Zero)
          THEN [a EXCEPT ![j].times = Append(@, processingTime)]
          ELSE a
        Found(date, k) ==
          IF k = 0
          THEN Timed(Append(acc, [key |-> date, times |-> <<>>]), Len(acc) + 1,
                     calculateProcessingTime(txs[i]))
          ELSE Timed(acc, k, calculateProcessingTime(txs[i]))
        Dated(date) == Found(date, KeyIndex(acc, date, 1))
    IN dailyGroups(Dated(Format(parseISO(txs[i].created), "MMM dd")), txs, i + 1)

\* The DailyMetrics of one day.
DayMetrics(g) ==
  IF g.times = <<>>
  THEN [key |-> g.key, avgTime |-> Zero, minTime |-> Zero, maxTime |-> Zero,
        count |-> 0, totalTime |-> Zero, variance |-> Zero]
  ELSE LET Of(m) ==
             [key |-> g.key, avgTime |-> m.avgTime, minTime |-> m.minTime,
              maxTime |-> m.maxTime, count |-> m.count, totalTime |-> m.totalTime,
              variance |-> m.variance]
       IN Of(calculateMetrics(g.times))

\* Sorted by a.date.localeCompare(b.date).  The caller has checked that
\* every created parses.
DaysMetrics(gs) == ArrayOf([i \in 1..Len(gs) |-> DayMetrics(gs[i])])

WithCount(ms) == Filter([i \in 1..Len(ms) |-> ms[i].count > 0], ms, 1)

calculateDailyMetricsValidOnly(txs) ==
  LET Sorted(ms) == WithCount(Sort(StringsAscending(Keys(ms)), ms))
  IN Sorted(DaysMetrics(dailyGroups(<<>>, txs, 1)))

calculateDailyMetrics(txs) ==
  LET Sorted(ms) == Sort(StringsAscending(Keys(ms)), ms)
  IN Sorted(DaysMetrics(dailyGroups(<<>>, txs, 1)))

AvgTimes(ms) == [i \in 1..Len(ms) |-> ms[i].avgTime]

ProcessingTimeMetrics(txs) ==
  IF SomeInvalidCreated(txs) THEN Threw
  ELSE
    LET Metrics(dailyMetrics, validMetrics, n) ==
          IF n = 0 THEN Threw  \* reduce of an empty array; latestMetric.avgTime
          ELSE [threw |-> FALSE,
                dailyMetrics |-> dailyMetrics,
                validMetrics |-> validMetrics,
                labels |-> Keys(dailyMetrics),
                data |-> AvgTimes(dailyMetrics),
                overallAvgTime |->
                  Div(Sum([i \in 1..n |-> validMetrics[i].totalTime]),
                      Int2Num(CountSum(validMetrics, 1))),
                latestMetric |-> validMetrics[n],
                timeChange |->
                  IF n >= 2
                  THEN Change(validMetrics[n].avgTime, validMetrics[n - 1].avgTime)
                  ELSE Zero,
                trend |->
                  IF n > 1
                  THEN Change(validMetrics[n].avgTime, validMetrics[1].avgTime)
                  ELSE Zero]
        Valid(dailyMetrics, validMetrics) ==
          Metrics(dailyMetrics, validMetrics, Len(validMetrics))
        Daily(dailyMetrics) ==
          Valid(dailyMetrics, WithCount(dailyMetrics))
    IN Daily(calculateDailyMetrics(txs))

(***************************************************************************)
(* TransactionMetrics.                                                     *)
(***************************************************************************)
payment == <<"p", "a", "y", "m", "e", "n", "t">>
payout == <<"p", "a", "y", "o", "u", "t">>

\* The initial accumulator of the reduce.  hourlyDistribution maps every
\* hour to its count, 0 for an hour that is not a key of the object.
metricsInit ==
  [totalVolume |-> Zero, avgTransactionSize |-> Zero, avgExchangeRate |-> Zero,
   exchangeRateCount |-> 0, minExchangeRate |-> Zero, maxExchangeRate |-> Zero,
   hourlyDistribution |-> [h \in 0..23 |-> 0],
   totalTransactions |-> 0, smallTransactions |-> 0, mediumTransactions |-> 0,
   largeTransactions |-> 0, processingTimes |-> <<>>, monthlyVolumes |-> <<>>,
   totalUsdVolume |-> Zero, volumeWeightedRate |-> Zero,
   totalWeightedVolume |-> Zero]

\* The exchange rate block of the reducer, for a truthy customerFacingAmount.
RateStep(acc, t) ==
  LET Rated(rate) ==
        [acc EXCEPT
           !.avgExchangeRate = Add(@, rate),
           !.exchangeRateCount = @ + 1,
           !.minExchangeRate = IF StrictEq(@, Zero) THEN rate
                               ELSE MathMin(<<@, rate>>),
           !.maxExchangeRate = MathMax(<<@, rate>>),
           !.totalUsdVolume = Add(@, t.customerFacingAmount),
           !.volumeWeightedRate = Add(@, Mul(rate, t.customerFacingAmount)),
           !.totalWeightedVolume = Add(@, t.customerFacingAmount)]
  IN Rated(Abs(Div(t.amount, t.customerFacingAmount)))

\* acc.monthlyVolumes[month] = (acc.monthlyVolumes[month] || 0) + amount
AddMonthly(mv, month, amount) ==
  LET k == KeyIndex(mv, month, 1) IN
  IF k = 0 THEN Append(mv, [key |-> month, volume |-> Add(Zero, amount)])
  ELSE [mv EXCEPT ![k].volume = Add(Or(@, Zero), amount)]

\* One step of the reducer on a record whose created parses; n is
\* transactions.length.
MetricsStep(acc, t, n) ==
  IF t.type # payment THEN acc
  ELSE
    LET Timed(a2, amount, date) ==
          [a2 EXCEPT
             !.hourlyDistribution[date.h] = @ + 1,
             !.monthlyVolumes = AddMonthly(@, Format(date, "MMM yyyy"), amount),
             !.processingTimes =
               Append(@, differenceInHours(NewDate(t.availableOn), date)),
             !.smallTransactions =
               IF Less(amount, Int2Num(10000)) THEN @ + 1 ELSE @,
             !.mediumTransactions =
               IF ~Less(amount, Int2Num(10000)) /\ Less(amount, Int2Num(50000))
               THEN @ + 1 ELSE @,
             !.largeTransactions =
               IF ~Less(amount, Int2Num(10000)) /\ ~Less(amount, Int2Num(50000))
               THEN @ + 1 ELSE @,
             !.totalTransactions = @ + 1]
        Rated(a1, amount) ==
          Timed(IF Truthy(t.customerFacingAmount) THEN RateStep(a1, t) ELSE a1,
                amount, NewDate(t.created))
        Sized(amount, totalVolume) ==
          Rated([acc EXCEPT !.totalVolume = totalVolume,
                            !.avgTransactionSize = Div(totalVolume, Int2Num(n))],
                amount)
        Payment(amount) == Sized(amount, Add(acc.totalVolume, amount))
    IN Payment(Abs(t.amount))

\* The accumulator after the first k records.
RECURSIVE MetricsFold(_, _)
RECURSIVE MetricsFoldCountingAll(_, _)
MetricsFoldCountingAll(txs, k) ==
  IF k = 0 THEN metricsInit
  ELSE IF txs[k].type # payment
       THEN [MetricsFoldCountingAll(txs, k - 1) EXCEPT !.totalTransactions = @ + 1]
       ELSE MetricsStep(MetricsFoldCountingAll(txs, k - 1), txs[k], Len(txs))

MetricsFold(txs, k) ==
  IF k = 0 THEN metricsInit
  ELSE MetricsStep(MetricsFold(txs, k - 1), txs[k], Len(txs))

\* format(new Date(t.created), ...) throws for a payment whose created does
\* not parse.
SomeInvalidPayment(txs) ==
  \E i \in 1..Len(txs) : txs[i].type = payment /\ ~NewDate(txs[i].created).ok

\* Math.round
Round(x) ==
  LET \* w is floor(2 * |x|), lost when 2 * |x| is more
      Halved(w) ==
        IF x.s > 0 \/ w.lost
        THEN ShiftRight(WideSum(w, [h |-> 0, l |-> 1]).h,
                        WideSum(w, [h |-> 0, l |-> 1]).l, 1)
        ELSE ShiftRight(w.h, w.l, 1)
      Whole(w) == Justified(x.s, w.h, w.l, 0)
  IN IF x.k # "fin" \/ x.e >= 0 THEN x
     ELSE Whole(Halved(ShiftRight(x.h, x.l, -x.e - 1)))

\* Object.entries(hourlyDistribution) sorted by descending count: the keys
\* are integer indices, so the entries come in ascending hour order.
HourEntries(hd) ==
  LET hours == {h \in 0..23 : hd[h] > 0}
      RECURSIVE Asc(_)
      Asc(h) == IF h > 23 THEN <<>>
                ELSE (IF h \in hours THEN <<[key |-> h, count |-> hd[h]]>> ELSE <<>>)
                     \o Asc(h + 1)
      Entries(es) == Sort(CountsDescending(CountsOf(es)), es)
  IN Entries(Asc(0))

\* new Date(a) of a month label 'MMM yyyy': the first day of that month.
MonthLabelDate(label) == NewDate(label)

MonthLabelDates(ms) == ArrayOf([i \in 1..Len(ms) |-> MonthLabelDate(ms[i].key)])

\* processingTimes.filter(t => t <= 24).length, and so on
TimeDistribution(ts) ==
  [fast |-> Len(Filter([i \in 1..Len(ts) |-> LessEq(ts[i], Int2Num(24))], ts, 1)),
   medium |-> Len(Filter([i \in 1..Len(ts) |->
                            Greater(ts[i], Int2Num(24))
                            /\ LessEq(ts[i], Int2Num(48))], ts, 1)),
   slow |-> Len(Filter([i \in 1..Len(ts) |-> Greater(ts[i], Int2Num(48))], ts, 1))]

TransactionMetrics(txs) ==
  IF SomeInvalidPayment(txs) THEN Threw
  ELSE
    LET Derived(metrics, hourEntries, monthlyVolumes, nm, currentMonthVolume,
                previousMonthVolume) ==
          IF hourEntries = <<>> THEN Threw  \* peakHour[0] of undefined
          ELSE [threw |-> FALSE,
                metrics |-> metrics,
                avgProcessingTime |->
                  Round(Div(Sum(metrics.processingTimes),
                            Int2Num(Len(metrics.processingTimes)))),
                avgExchangeRate |->
                  Div(metrics.avgExchangeRate, Int2Num(metrics.exchangeRateCount)),
                volumeWeightedExchangeRate |->
                  Div(metrics.volumeWeightedRate, metrics.totalWeightedVolume),
                peakHour |-> hourEntries[1],
                monthlyVolumes |-> monthlyVolumes,
                monthlyGrowth |->
                  IF nm > 1
                  THEN ToFixed(Change(monthlyVolumes[nm].volume,
                                      monthlyVolumes[1].volume), 1)
                  ELSE <<"0">>,
                processingTimeDistribution |->
                  TimeDistribution(metrics.processingTimes),
                volumeMetrics |->
                  [monthOverMonth |-> Change(currentMonthVolume, previousMonthVolume),
                   averageTicketSize |->
                     Div(metrics.totalVolume, Int2Num(metrics.totalTransactions)),
                   successRate |->
                     Mul(Div(Int2Num(metrics.totalTransactions), Int2Num(Len(txs))),
                         Int2Num(100))]]
        Months(metrics, monthlyVolumes, previousMonthVolumes, nm) ==
          Derived(metrics, HourEntries(metrics.hourlyDistribution), monthlyVolumes, nm,
                  IF nm >= 1 THEN Or(previousMonthVolumes[1].volume, Zero) ELSE Zero,
                  IF nm >= 2 THEN Or(previousMonthVolumes[2].volume, Zero) ELSE Zero)
        Dated(metrics, dates) ==
          Months(metrics, Sort(DatesAscending(dates), metrics.monthlyVolumes),
                 Sort(DatesDescending(dates), metrics.monthlyVolumes),
                 Len(metrics.monthlyVolumes))
        Reduced(metrics) == Dated(metrics, MonthLabelDates(metrics.monthlyVolumes))
    IN Reduced(MetricsFold(txs, Len(txs)))

(***************************************************************************)
(* The CSV texts the model is run on.  A text is a header line and up to   *)
(* MaxRows data lines joined by newlines, with or without a final newline. *)
(* Numeric columns hold decimal numerals or nothing, date columns hold     *)
(* complete timestamps or nothing; a line may also be short or blank.      *)
(***************************************************************************)
RECURSIVE Join(_, _)
Join(parts, sep) ==
  IF parts = <<>> THEN <<>>
  ELSE IF Len(parts) = 1 THEN parts[1]
  ELSE parts[1] \o <<sep>> \o Join(Tail(parts), sep)

\* A data line in the column order of the export: id, type, source, amount,
\* fee, two unused columns, net, currency, created, availableOn,
\* description, customerFacingAmount, customerFacingCurrency, transfer,
\* transferDate.
Row(type, amount, created, availableOn, cfAmount, cfCurrency) ==
  Join(<< <<"t">>, type, <<"s">>, amount, <<"0">>, <<>>, <<>>, amount,
          <<"n", "g", "n">>, created, availableOn, <<"d">>, cfAmount,
          cfCurrency, <<"x">>, <<"y">> >>, ",")

Stamp(y, m, d, h, mi) ==
  Pad2(y \div 100) \o Pad2(y % 100) \o <<"-">> \o Pad2(m) \o <<"-">> \o Pad2(d) \o <<" ">>
  \o Pad2(h) \o <<":">> \o Pad2(mi)

eur == <<"e", "u", "r">>

\* Rows that differ in day, hour, weekday, month, currency and in the
\* presence of the timestamps.
DatedRows ==
  { Row(payment, <<"1","0","0">>, Stamp(2024, 1, 15, 10, 30),
        Stamp(2024, 1, 17, 10, 30), <<"5","0">>, usd),
    Row(payment, <<"3","0","0">>, Stamp(2024, 1, 15, 14, 0),
        Stamp(2024, 1, 15, 14, 10), <<"1","0","0">>, usd),
    Row(payment, <<"2","0","0">>, Stamp(2023, 12, 31, 23, 0),
        Stamp(2024, 1, 2, 1, 0), <<"-","2","0">>, eur),
    Row(payment, <<"7","0","0","0","0">>, Stamp(2024, 4, 2, 9, 0),
        <<>>, <<"7","0">>, usd),
    Row(payment, <<"1","0","0">>, <<>>, Stamp(2024, 1, 17, 10, 30),
        <<"1","0">>, usd) }

\* Rows that differ in the customer-facing amount only: absent, on and
\* around the boundaries 100, 500, 1000 and 5000 of the value segments,
\* infinite, which parseFloat reads from the text Infinity, and not a
\* number, which it makes of a text that starts with no numeral.
AmountRows ==
  { Row(payout, <<"1">>, Stamp(2024, 1, 15, 10, 30), Stamp(2024, 1, 15, 10, 40),
        a, eur) :
      a \in { <<>>, <<"9","9",".","5">>, <<"1","0","0">>, <<"-","5","0","0">>,
              <<"9","9","9">>, <<"1","0","0","0">>, <<"4","9","9","9">>,
              <<"5","0","0","0">>,
              <<"I","n","f","i","n","i","t","y">>, <<"x">> } }

SeqsUpTo(S, n) == UNION { [1..k -> S] : k \in 0..n }

TextOf(header, rows, newline) ==
  Join(<<header>> \o rows, NL) \o (IF newline THEN <<NL>> ELSE <<>>)

Header == <<"i", "d", ",", "t", "y", "p", "e">>

\* Lines that are short or blank, and two complete rows.
MixedRows ==
  { <<"t", ",", "p">>, <<>> } \cup
  { Row(payment, <<"1","0","0">>, Stamp(2024, 1, 15, 10, 30),
        Stamp(2024, 1, 17, 10, 30), <<"5","0">>, usd),
    Row(payout, <<"-","5","0","0">>, Stamp(2024, 1, 16, 10, 5),
        Stamp(2024, 1, 16, 10, 5), <<>>, <<>>) }

\* Rows of one currency that differ in the minutes between created and
\* availableOn, on and around the bounds of the processing-time buckets,
\* and in their day and month.
LatencyRow(created, availableOn) ==
  Row(payment, <<"1","0","0">>, created, availableOn, <<"5","0">>, usd)

LatencyRows ==
  { LatencyRow(Stamp(2024, 1, 15, 10, 30), Stamp(2024, 1, 15, 10, 35)),
    LatencyRow(Stamp(2024, 1, 15, 10, 30), Stamp(2024, 1, 15, 12, 31)),
    LatencyRow(Stamp(2024, 1, 16, 10, 30), Stamp(2024, 1, 16, 10, 30)),
    LatencyRow(Stamp(2024, 4, 2, 9, 0), Stamp(2024, 4, 2, 9, 20)),
    LatencyRow(Stamp(2024, 1, 15, 10, 30), <<>>) }

\* Two rows of the same day that differ in their hour, so that with three
\* of them the later hour can hold more records than the earlier one.
HourRows ==
  { Row(payment, <<"1","0","0">>, Stamp(2024, 1, 15, 10, 30),
        Stamp(2024, 1, 17, 10, 30), <<"5","0">>, usd),
    Row(payment, <<"3","0","0">>, Stamp(2024, 1, 15, 14, 0),
        Stamp(2024, 1, 15, 14, 10), <<"1","0","0">>, usd) }

\* Two payments, of amount 0 and of amount 10000, and a payout of 50000.
SizeRows ==
  { Row(payment, <<"0">>, Stamp(2024, 1, 15, 10, 30),
        Stamp(2024, 1, 15, 10, 40), <<"5","0">>, usd),
    Row(payment, <<"1","0","0","0","0">>, Stamp(2024, 1, 15, 10, 30),
        Stamp(2024, 1, 18, 10, 30), <<"1","0","0">>, usd),
    Row(payout, <<"5","0","0","0","0">>, Stamp(2024, 1, 16, 10, 5),
        Stamp(2024, 1, 16, 10, 5), <<>>, <<>>) }

Texts ==
  { TextOf(Header, rows, FALSE) : rows \in SeqsUpTo(DatedRows, MaxRows) }
  \cup { TextOf(Header, rows, FALSE) : rows \in SeqsUpTo(SizeRows, MaxSizeRows) }
  \cup { TextOf(Header, rows, FALSE) : rows \in SeqsUpTo(HourRows, MaxHourRows) }
  \cup { TextOf(Header, rows, FALSE) : rows \in SeqsUpTo(LatencyRows, MaxLatencyRows) }
  \cup { TextOf(Header, rows, TRUE) : rows \in SeqsUpTo(AmountRows, MaxRows) }
  \cup { TextOf(h[1], rows, h[2]) :
           h \in { << <<"i", "d">>, FALSE >>, << <<"i", "d">>, TRUE >>,
                   << <<>>, FALSE >>, << <<" ">>, TRUE >> },
           rows \in SeqsUpTo(MixedRows, MaxRows) }

(***************************************************************************)
(* The state machine.                                                      *)
(*   rawTransactionData  the CSV text embedded in the bundle               *)
(*   transactions        the list App hands to the views                   *)
(*   rendered            App has run                                       *)
(*   view, out           the view computed last and what it produced       *)
(*   isLoading           the flag handleRefresh raises                         *)
(*   dateRange           the option of the select of the controls bar      *)
(*   timeouts            the timers of handleRefresh still to fire             *)
(*   pass                the views App's render pass has rendered so far   *)
(***************************************************************************)
Init ==
  /\ rawTransactionData \in Texts
  /\ transactions = <<>>
  /\ rendered = FALSE
  /\ view = "none"
  /\ out = [threw |-> FALSE]
  /\ isLoading = FALSE
  /\ dateRange = "Last 30 Days"
  /\ timeouts = 0
  /\ pass = 0

\* App: const transactions = parseTransactions(rawTransactionData)
App ==
  /\ ~rendered
  /\ transactions' = parseTransactions(rawTransactionData)
  /\ rendered' = TRUE
  /\ UNCHANGED <<rawTransactionData, view, out, isLoading, dateRange, timeouts, pass>>

\* A view component called with the list as its props, on its own.
Render(name, result) ==
  /\ rendered
  /\ view' = name
  /\ out' = result
  /\ UNCHANGED <<rawTransactionData, transactions, rendered, isLoading,
                 dateRange, timeouts, pass>>

\* The views of App's JSX in document order, which is the order React
\* renders them in.
AppViews ==
  <<"TransactionMetrics", "MonthlyVolumeTrends", "TransactionVelocity",
    "ProcessingEfficiency", "ValueSegmentation", "CurrencyDistributionChart",
    "WeekdayAnalysis", "ExchangeRateAnalysis", "TransactionChart">>

\* The k-th view of App's render pass: the views before it have rendered
\* and none has thrown.  A view that throws ends the pass, no error
\* boundary catching it, and React unmounts the tree.
Rendered(k, result) ==
  /\ rendered
  /\ pass = k - 1
  /\ ~out.threw
  /\ view' = AppViews[k]
  /\ out' = result
  /\ pass' = k
  /\ UNCHANGED <<rawTransactionData, transactions, rendered, isLoading,
                 dateRange, timeouts>>

\* The tree is mounted and no render pass is under way: the state in
\* which the browser delivers a click or runs a timer that is due.
Idle == pass = Len(AppViews) /\ ~out.threw

handleRefreshRefetching ==
  /\ Idle
  /\ timeouts < MaxTimeouts
  /\ isLoading' = TRUE
  /\ timeouts' = timeouts + 1
  /\ transactions' = <<>>
  /\ pass' = IF isLoading THEN pass ELSE 0
  /\ UNCHANGED <<rawTransactionData, rendered, view, out, dateRange>>

\* handleRefresh: setIsLoading(true) and a timer.  When the flag changes
\* App renders again: it parses the embedded text again and a new pass
\* over the views begins, what the last pass produced staying on the
\* screen until then.  Setting the flag to the value it has renders
\* nothing.
handleRefresh ==
  /\ Idle
  /\ timeouts < MaxTimeouts
  /\ isLoading' = TRUE
  /\ timeouts' = timeouts + 1
  /\ transactions' = IF isLoading THEN transactions
                     ELSE parseTransactions(rawTransactionData)
  /\ pass' = IF isLoading THEN pass ELSE 0
  /\ UNCHANGED <<rawTransactionData, rendered, view, out, dateRange>>

RefreshTimeoutKeepingFlag ==
  /\ Idle
  /\ timeouts > 0
  /\ isLoading' = isLoading
  /\ timeouts' = timeouts - 1
  /\ transactions' = parseTransactions(rawTransactionData)
  /\ pass' = IF isLoading THEN 0 ELSE pass
  /\ UNCHANGED <<rawTransactionData, rendered, view, out, dateRange>>

\* The timer of handleRefresh fires: setIsLoading(false), and when the
\* flag was up App renders again.
RefreshTimeout ==
  /\ Idle
  /\ timeouts > 0
  /\ isLoading' = FALSE
  /\ timeouts' = timeouts - 1
  /\ transactions' = IF isLoading THEN parseTransactions(rawTransactionData)
                     ELSE transactions
  /\ pass' = IF isLoading THEN 0 ELSE pass
  /\ UNCHANGED <<rawTransactionData, rendered, view, out, dateRange>>

\* The options of the select of the controls bar.
DateRanges ==
  {"Last 24 Hours", "Last 7 Days", "Last 30 Days", "Last 90 Days", "Custom Range"}

\* The select's onChange: setDateRange(e.target.value) for another option
\* than the one selected.  The state changes, so App renders again: it
\* parses the embedded text again and a new pass over the views begins;
\* the flag and the pending timers stay as they are.
setDateRange(value) ==
  /\ Idle
  /\ value # dateRange
  /\ dateRange' = value
  /\ transactions' = parseTransactions(rawTransactionData)
  /\ pass' = 0
  /\ UNCHANGED <<rawTransactionData, rendered, view, out, isLoading, timeouts>>

RenderTransactionMetrics ==
  Render("TransactionMetrics", TransactionMetrics(transactions))
RenderMonthlyVolumeTrends ==
  Render("MonthlyVolumeTrends", MonthlyVolumeTrends(transactions))
RenderTransactionVelocity ==
  Render("TransactionVelocity", TransactionVelocity(transactions))
RenderProcessingEfficiency ==
  Render("ProcessingEfficiency", ProcessingEfficiency(transactions))
RenderValueSegmentation ==
  Render("ValueSegmentation", ValueSegmentation(transactions))
RenderCurrencyDistributionChart ==
  Render("CurrencyDistributionChart", CurrencyDistributionChart(transactions))
RenderWeekdayAnalysis ==
  Render("WeekdayAnalysis", WeekdayAnalysis(transactions))
RenderExchangeRateAnalysis ==
  Render("ExchangeRateAnalysis", ExchangeRateAnalysis(transactions))
RenderTransactionChart ==
  Render("TransactionChart", TransactionChart(transactions))
RenderProcessingTimeMetrics ==
  Render("ProcessingTimeMetrics", ProcessingTimeMetrics(transactions))

\* One render pass of App (part_003:483-529).
RenderPass ==
  \/ Rendered(1, TransactionMetrics(transactions))
  \/ Rendered(2, MonthlyVolumeTrends(transactions))
  \/ Rendered(3, TransactionVelocity(transactions))
  \/ Rendered(4, ProcessingEfficiency(transactions))
  \/ Rendered(5, ValueSegmentation(transactions))
  \/ Rendered(6, CurrencyDistributionChart(transactions))
  \/ Rendered(7, WeekdayAnalysis(transactions))
  \/ Rendered(8, ExchangeRateAnalysis(transactions))
  \/ Rendered(9, TransactionChart(transactions))

Next ==
  \/ App
  \/ RenderPass
  \/ handleRefresh
  \/ RefreshTimeout
  \/ \E value \in DateRanges : setDateRange(value)

Spec == Init /\ [][Next]_vars

\* parseTransactions and the exported view components as functions:
\* parseTransactions applied to every text and each component called on
\* its own with the list parsed, whatever App renders and in whatever
\* order.  ProcessingTimeMetrics is exported by part_002 and rendered by
\* no JSX of App.
ViewNext ==
  \/ App
  \/ RenderTransactionMetrics
  \/ RenderMonthlyVolumeTrends
  \/ RenderTransactionVelocity
  \/ RenderProcessingEfficiency
  \/ RenderValueSegmentation
  \/ RenderCurrencyDistributionChart
  \/ RenderWeekdayAnalysis
  \/ RenderExchangeRateAnalysis
  \/ RenderTransactionChart
  \/ RenderProcessingTimeMetrics

ViewSpec == Init /\ [][ViewNext]_vars

\* A timer set with setTimeout fires once its delay has passed: the event
\* loop runs every callback that is due, so a pending timer is taken away
\* in the end.  RefreshTimeout is the only step that takes one away.  A
\* callback waits for the render pass under way, and a change of the select
\* begins another pass; the callback is queued all the same and runs between
\* two passes, however often the select changes, which is fairness of the
\* strong kind: the timer can fire again and again, so it does.
TimerFires == Idle /\ timeouts > 0 /\ timeouts' = timeouts - 1

\* A render pass is synchronous code: once begun it goes on to its next
\* view until it has rendered them all or one has thrown.
PassMoves ==
  rendered /\ pass < Len(AppViews) /\ ~out.threw /\ pass' = pass + 1

LiveSpec ==
  Init /\ [][Next]_vars /\ WF_pass(PassMoves) /\ SF_timeouts(TimerFires)

(***************************************************************************)
(* Properties.  What the views are compared with is computed here from     *)
(* the list of records itself, not taken from the folds of the views.      *)
(***************************************************************************)
\* The lines of a text: a final newline ends the last line.
TextLines(text) ==
  LET parts == Split(text, NL)
  IN IF Len(parts) >= 2 /\ parts[Len(parts)] = <<>>
     THEN SubSeq(parts, 1, Len(parts) - 1)
     ELSE parts

\* abs(customerFacingAmount ?? 0)
NullishAbs(t) ==
  Abs(IF t.customerFacingAmount.k \in {"null", "undef"}
      THEN Zero
      ELSE t.customerFacingAmount)

\* abs(customerFacingAmount || 0) of a record: an amount that is absent, 0
\* or not a number counts as 0.
FalsyAbs(t) ==
  IF t.customerFacingAmount.k \in {"null", "undef", "nan"} THEN Zero
  ELSE Abs(t.customerFacingAmount)

\* The sum of f over the positions in I of the list of records.
SumOver(I, f(_)) ==
  Sum([i \in 1..Len(transactions) |-> IF i \in I THEN f(transactions[i]) ELSE Zero])

\* The groups a grouped view produced.
GroupsIn(o) ==
  CASE view = "CurrencyDistributionChart" -> o.currencyData
    [] view = "WeekdayAnalysis" -> o.weekdayData
    [] view = "TransactionVelocity" -> o.hourlyData
    [] view = "MonthlyVolumeTrends" -> o.monthlyData
    [] view = "TransactionChart" -> o.sortedDays
    [] view = "ValueSegmentation" -> o.segments

\* The label under which a grouped view files a record.
KeyIn(t) ==
  CASE view = "CurrencyDistributionChart" ->
         IF t.customerFacingCurrency \in {Null, Undefined, <<>>}
         THEN UNKNOWN
         ELSE ToUpperCase(t.customerFacingCurrency)
    [] view = "WeekdayAnalysis" -> Format(parseISO(t.created), "EEEE")
    [] view = "TransactionVelocity" -> Format(parseISO(t.created), "HH:00")
    [] view = "MonthlyVolumeTrends" -> Format(parseISO(t.created), "MMM yyyy")
    [] view = "TransactionChart" -> Format(parseISO(t.created), "MMM dd")

\* The positions of the records a group stands for.
MembersOf(key) == {i \in 1..Len(transactions) : KeyIn(transactions[i]) = key}

\* C1: for every text, made of a header line, blank or not, and n >= 0
\* data lines, with or without a final newline, parseTransactions returns
\* exactly n records, record i built from data line i in file order, and
\* the header line, the first line whatever it holds, yields no record.
\* parseTransactions has no step that raises on a string, so that a list
\* is returned for every text.
C1_OneRecordPerDataLine ==
  rendered =>
    LET lines == TextLines(rawTransactionData) IN
    /\ Len(transactions) = Len(lines) - 1
    /\ \A i \in 1..Len(transactions) : transactions[i] = ParseLine(lines[i + 1])

\* C2: an empty customerFacingAmount field gives the absent value null and
\* neither 0 nor NaN, an empty customerFacingCurrency field gives null, and
\* a customerFacingAmount field that is not empty gives its parsed number.
C2_OptionalColumns ==
  rendered =>
    \A i \in 1..Len(transactions) :
      LET fields == Split(TextLines(Trim(rawTransactionData))[i + 1], ",")
          amountField == At(fields, 13)
          currencyField == At(fields, 14)
          t == transactions[i]
      IN /\ amountField \in {<<>>, Undefined} =>
              /\ t.customerFacingAmount = NullNum
              /\ t.customerFacingAmount # Zero
              /\ ~IsNaN(t.customerFacingAmount)
         /\ currencyField \in {<<>>, Undefined} => t.customerFacingCurrency = Null
         /\ amountField \notin {<<>>, Undefined} =>
              /\ t.customerFacingAmount = ParseFloat(amountField)
              /\ t.customerFacingAmount.k \notin {"null", "undef"}
         /\ currencyField \notin {<<>>, Undefined} =>
              t.customerFacingCurrency = currencyField

C2_Witness ==
  /\ rendered
  /\ Len(transactions) = 2
  /\ At(Split(DataLines(rawTransactionData)[1], ","), 13) = <<>>
  /\ transactions[1].customerFacingAmount = NullNum
  /\ transactions[2].customerFacingAmount = Div(Int2Num(199), Int2Num(2))
  /\ \E i \in 1..2 : transactions[i].customerFacingCurrency = eur

\* The positions of the records whose amount abs(customerFacingAmount ?? 0)
\* is infinite.
AmountInfinite ==
  {i \in 1..Len(transactions) : NullishAbs(transactions[i]) = PosInf}

\* C3: over a list that is not empty and whose created timestamps all
\* parse, the group counts of the currency, weekday, hour, month and day
\* views each add up to the number of records, and those of the
\* value-segment view to the number of records whose amount is not
\* infinite.
C3_CountsAddUp ==
  /\ view \in {"CurrencyDistributionChart", "WeekdayAnalysis",
               "TransactionVelocity", "MonthlyVolumeTrends",
               "TransactionChart", "ValueSegmentation"}
  /\ transactions # <<>>
  /\ ~SomeInvalidCreated(transactions)
  => /\ ~out.threw
     /\ CountSum(GroupsIn(out), 1) =
          IF view = "ValueSegmentation"
          THEN Len(transactions) - Cardinality(AmountInfinite)
          ELSE Len(transactions)

\* C3 as stated: the group counts of the six views, the value-segment
\* view among them, each add up to the number of records.
C3_PartitionCompleteness ==
  /\ view \in {"CurrencyDistributionChart", "WeekdayAnalysis",
               "TransactionVelocity", "MonthlyVolumeTrends",
               "TransactionChart", "ValueSegmentation"}
  /\ transactions # <<>>
  /\ ~SomeInvalidCreated(transactions)
  => /\ ~out.threw
     /\ CountSum(GroupsIn(out), 1) = Len(transactions)

\* Two records with valid timestamps, one of an infinite amount: the
\* segments count one record.
C3_Witness ==
  /\ view = "ValueSegmentation"
  /\ ~out.threw
  /\ Len(transactions) = 2
  /\ ~SomeInvalidCreated(transactions)
  /\ Cardinality(AmountInfinite) = 1
  /\ CountSum(out.segments, 1) = 1

IsElementAt(xs, m, k) ==
  /\ \E i \in 1..Len(xs) : xs[i] = m
  /\ Cardinality({i \in 1..Len(xs) : Less(xs[i], m)}) <= k
  /\ Cardinality({i \in 1..Len(xs) : LessEq(xs[i], m)}) >= k + 1

\* A list that has an ascending sort: no element is NaN.
Ordered(xs) == \A i \in 1..Len(xs) : ~IsNaN(xs[i])

\* C5: the median of the exchange rates (calculateRateMetrics), of the
\* processing times (ProcessingEfficiency) and of the hourly counts
\* (TransactionVelocity) is the element at position floor(n / 2) of the
\* ascending sort: for an even n the upper of the two middle elements.
\* Stated of the lists that have an ascending sort, those without NaN.
C5_MedianIsUpperMiddle ==
  /\ view = "ExchangeRateAnalysis" /\ ~out.threw /\ Ordered(out.rates) =>
       IsElementAt(out.rates, out.metrics.median, Len(out.rates) \div 2)
  /\ /\ view = "ProcessingEfficiency" /\ ~out.threw
     /\ out.processingTimes # <<>> /\ Ordered(out.processingTimes)
     => IsElementAt(out.processingTimes, out.medianTime,
                    Len(out.processingTimes) \div 2)
  /\ view = "TransactionVelocity" /\ ~out.threw /\ Ordered(out.counts) =>
       IsElementAt(out.counts, out.medianTransactionsPerHour,
                   Len(out.counts) \div 2)

C5_Witness ==
  /\ view = "ExchangeRateAnalysis"
  /\ ~out.threw
  /\ Len(out.rates) = 2
  /\ out.metrics.median = Int2Num(3)
  /\ out.metrics.min = Int2Num(2)
  /\ out.metrics.mean = Div(Int2Num(5), Int2Num(2))

\* The positions of the usd records with a customer-facing amount that is
\* present and not zero.
UsdPositions ==
  {i \in 1..Len(transactions) :
     /\ transactions[i].customerFacingCurrency = usd
     /\ transactions[i].customerFacingAmount.k = "fin"
     /\ ~IsZero(transactions[i].customerFacingAmount)}

\* abs(amount / customerFacingAmount) * abs(customerFacingAmount)
RateTimesVolume(t) ==
  Mul(Abs(Div(t.amount, t.customerFacingAmount)), Abs(t.customerFacingAmount))

\* C6: the volume-weighted rate of ExchangeRateAnalysis is the sum of
\* rate * vol over the sum of vol, taken over the usd records with a
\* customer-facing amount that is not zero, with rate = abs(amount /
\* customerFacingAmount) and vol = abs(customerFacingAmount); no rate is a
\* division by zero.
C6_VolumeWeightedRate ==
  view = "ExchangeRateAnalysis" /\ ~out.threw =>
    /\ out.volumeWeightedRate =
         Div(SumOver(UsdPositions, RateTimesVolume), SumOver(UsdPositions, NullishAbs))
    /\ Len(out.exchangeRates) = Cardinality(UsdPositions)
    /\ \A j \in 1..Len(out.exchangeRates) :
         /\ out.exchangeRates[j].volume # Zero
         /\ out.exchangeRates[j].rate.k = "fin"

C6_Witness ==
  /\ view = "ExchangeRateAnalysis"
  /\ ~out.threw
  /\ Cardinality(UsdPositions) = 2
  /\ out.volumeWeightedRate = Div(Int2Num(400), Int2Num(150))

\* C7: WeekdayAnalysis yields exactly seven groups, Sunday to Saturday in
\* that order, whatever the records; a weekday without records has count
\* 0, volume 0 and avgSize NaN; and with created timestamps that all parse
\* (the empty list included) the view does not throw.
C7_SevenWeekdays ==
  view = "WeekdayAnalysis" =>
    /\ ~SomeInvalidCreated(transactions) => ~out.threw
    /\ ~out.threw =>
         /\ Len(out.weekdayData) = 7
         /\ Keys(out.weekdayData) = weekdays
         /\ \A j \in 1..7 :
              LET g == out.weekdayData[j] IN
              /\ g.count = Cardinality(MembersOf(g.key))
              /\ g.count = 0 => g.volume = Zero /\ g.avgSize = NaN

C7_Witness ==
  /\ view = "WeekdayAnalysis"
  /\ ~out.threw
  /\ transactions # <<>>
  /\ \E j \in 1..7 : out.weekdayData[j].count = 0 /\ out.weekdayData[j].avgSize = NaN
  /\ \E j \in 1..7 : out.weekdayData[j].count = 2

\* C8: for every list of records, the empty list and a list without
\* payment records included, each of the views TransactionMetrics,
\* TransactionVelocity, TransactionChart, ProcessingTimeMetrics,
\* ProcessingEfficiency, MonthlyVolumeTrends, CurrencyDistributionChart and
\* ExchangeRateAnalysis completes without raising.
C8_EngineNeverRaises ==
  view \in {"TransactionMetrics", "TransactionVelocity", "TransactionChart",
            "ProcessingTimeMetrics", "ProcessingEfficiency",
            "MonthlyVolumeTrends", "CurrencyDistributionChart",
            "ExchangeRateAnalysis"}
  => ~out.threw

\* The records whose created timestamp parses.
ValidCreated ==
  Filter([i \in 1..Len(transactions) |-> parseISO(transactions[i].created).ok],
         transactions, 1)

\* A time-bucketed view computed over a list.
TimeBucketed(txs) ==
  CASE view = "TransactionChart" -> TransactionChart(txs)
    [] view = "TransactionVelocity" -> TransactionVelocity(txs)
    [] view = "WeekdayAnalysis" -> WeekdayAnalysis(txs)
    [] view = "MonthlyVolumeTrends" -> MonthlyVolumeTrends(txs)

\* The label, count and volume of every group.
KeyCounts(gs) == [j \in 1..Len(gs) |-> <<gs[j].key, gs[j].count, gs[j].volume>>]

\* C9: a record whose created timestamp cannot be parsed is left out of
\* the time-bucketed views without an error: the view completes and its
\* group counts and volumes are those of the list without that record.
C9_InvalidCreatedExcluded ==
  /\ view \in {"TransactionChart", "TransactionVelocity", "WeekdayAnalysis",
               "MonthlyVolumeTrends"}
  /\ SomeInvalidCreated(transactions)
  => /\ ~out.threw
     /\ KeyCounts(GroupsIn(out)) = KeyCounts(GroupsIn(TimeBucketed(ValidCreated)))

\* The segment the half-open ranges [0, 100), [100, 500), [500, 1000),
\* [1000, 5000), [5000, infinity) give an amount >= 0; 0 if none.
SegmentOf(a) ==
  IF Less(a, Int2Num(100)) THEN 1
  ELSE IF Less(a, Int2Num(500)) THEN 2
  ELSE IF Less(a, Int2Num(1000)) THEN 3
  ELSE IF Less(a, Int2Num(5000)) THEN 4
  ELSE IF Less(a, PosInf) THEN 5
  ELSE 0

LatencyPositions ==
  {i \in 1..Len(transactions) :
     /\ transactions[i].created \notin {Null, Undefined, <<>>}
     /\ transactions[i].availableOn \notin {Null, Undefined, <<>>}}

LatencyOf(i) ==
  differenceInMinutes(parseISO(transactions[i].availableOn),
                      parseISO(transactions[i].created))

\* Bucket b of the six with its upper bound included, and with its lower
\* bound included.
InBucketClosed(time, b) ==
  /\ b = 1 \/ Greater(time, Int2Num(intervals[b - 1]))
  /\ b = 6 \/ LessEq(time, Int2Num(intervals[b]))

InBucketHalfOpen(time, b) ==
  /\ b = 1 \/ ~Less(time, Int2Num(intervals[b - 1]))
  /\ b = 6 \/ Less(time, Int2Num(intervals[b]))

\* C11: ProcessingEfficiency counts each processing time in the first of
\* the buckets 5, 15, 30, 60, 120 minutes whose bound it is less than or
\* equal to, and in the open bucket when it exceeds them all: a time equal
\* to a bound is counted in the bucket of that bound.
C11_ClosedBuckets ==
  view = "ProcessingEfficiency" =>
    /\ ~out.threw
    /\ \A b \in 1..6 :
         out.distribution[b] =
           Cardinality({i \in LatencyPositions : InBucketClosed(LatencyOf(i), b)})

\* C11 as stated: half-open buckets, a time equal to a bound being counted
\* in the next bucket.
C11_HalfOpenBuckets ==
  view = "ProcessingEfficiency" =>
    \A b \in 1..6 :
      out.distribution[b] =
        Cardinality({i \in LatencyPositions : InBucketHalfOpen(LatencyOf(i), b)})

C11_Witness ==
  /\ view = "ProcessingEfficiency"
  /\ Len(transactions) = 2
  /\ LatencyPositions = {1, 2}
  /\ LatencyOf(1) = Int2Num(5)
  /\ LatencyOf(2) = Int2Num(121)
  /\ out.distribution[1] = 1
  /\ out.distribution[2] = 0
  /\ out.distribution[6] = 1

\* The positions whose processing time, in whole minutes, is positive.
PositiveLatencyPositions == {i \in LatencyPositions : Greater(LatencyOf(i), Zero)}

LatencySum(I) ==
  Sum([i \in 1..Len(transactions) |-> IF i \in I THEN LatencyOf(i) ELSE Zero])

\* The days of a ProcessingTimeMetrics result.
DayCountSum(ms) == CountSum(ms, 1)
DayTimeSum(ms) == Sum([j \in 1..Len(ms) |-> ms[j].totalTime])

\* The latency the record at position i counts with when an absent
\* timestamp makes it 0.
AbsentAsZero(i) == IF i \in LatencyPositions THEN LatencyOf(i) ELSE Zero

\* C12: a record whose created or availableOn is absent is not filtered
\* out: it counts with a latency of 0 in the latency aggregates of
\* ProcessingEfficiency, that is in count, mean, minimum and the lowest
\* bucket, and in those of ProcessingTimeMetrics, whose days count the
\* records it keeps.
C12_AbsentTimestampsCountAsZero ==
  /\ view = "ProcessingEfficiency" =>
       /\ out.metrics.count = Len(transactions)
       /\ out.metrics.avgTime =
            Div(LatencySum(LatencyPositions), Int2Num(Len(transactions)))
       /\ \A i \in 1..Len(transactions) :
            LessEq(out.metrics.minTime, AbsentAsZero(i))
       /\ out.distribution[1] =
            Cardinality({i \in 1..Len(transactions) :
                           LessEq(AbsentAsZero(i), Int2Num(5))})
  /\ view = "ProcessingTimeMetrics" /\ ~out.threw =>
       DayCountSum(out.dailyMetrics) =
         Cardinality({i \in 1..Len(transactions) :
                        i \in LatencyPositions => Greater(LatencyOf(i), Zero)})

\* The positions of the records without a customer-facing amount.
AmountAbsent == {i \in 1..Len(transactions) :
                   transactions[i].customerFacingAmount.k \in {"null", "undef"}}

\* C13: a record without a customer-facing amount is left out of the
\* currency distribution: it adds nothing to the count or the volume of
\* any currency group of CurrencyDistributionChart.
C13_AbsentAmountExcluded ==
  view = "CurrencyDistributionChart" =>
    /\ out.totalCount = Len(transactions) - Cardinality(AmountAbsent)
    /\ \A j \in 1..Len(out.currencyData) :
         /\ out.currencyData[j].count =
              Cardinality(MembersOf(out.currencyData[j].key) \ AmountAbsent)
         /\ out.currencyData[j].volume =
              SumOver(MembersOf(out.currencyData[j].key) \ AmountAbsent, NullishAbs)

\* The time of the first day of the month a label 'MMM yyyy' names.
MonthTime(label) == GetTime(MonthLabelDate(label))

\* C14: the months MonthlyVolumeTrends emits, the labels and the entries
\* alike, are in chronological order of the month.
C14_MonthsChronological ==
  view = "MonthlyVolumeTrends" /\ ~out.threw =>
    /\ Len(out.monthlyData) = Len(out.months)
    /\ \A i \in 1..Len(out.months) : out.monthlyData[i].key = out.months[i]
    /\ \A i, j \in 1..Len(out.months) :
         i < j => Less(MonthTime(out.months[i]), MonthTime(out.months[j]))

\* The entries of the months that come before the month of entry e.
EarlierEntries(es, e) ==
  {j \in 1..Len(es) : Less(MonthTime(es[j].key), MonthTime(e.key))}

\* The entry of the month that precedes e's month among those present.
IsPreceding(es, p, e) ==
  /\ p \in EarlierEntries(es, e)
  /\ \A j \in EarlierEntries(es, e) :
       LessEq(MonthTime(es[j].key), MonthTime(es[p].key))

\* C15: in MonthlyVolumeTrends the earliest month has growth 0, every other
\* month M has growth (volume(M) - volume(P)) / volume(P) * 100 for the
\* month P that precedes it chronologically among the months present, and
\* the latest growth is that of the chronologically latest month.
C15_GrowthOverPrecedingMonth ==
  view = "MonthlyVolumeTrends" /\ ~out.threw =>
    /\ \A i \in 1..Len(out.monthlyData) :
         IF EarlierEntries(out.monthlyData, out.monthlyData[i]) = {}
         THEN out.monthlyData[i].growth = Zero
         ELSE \E p \in 1..Len(out.monthlyData) :
                /\ IsPreceding(out.monthlyData, p, out.monthlyData[i])
                /\ out.monthlyData[i].growth =
                     Change(out.monthlyData[i].volume, out.monthlyData[p].volume)
    /\ \A i \in 1..Len(out.monthlyData) :
         (\A j \in 1..Len(out.monthlyData) :
            LessEq(MonthTime(out.monthlyData[j].key), MonthTime(out.monthlyData[i].key)))
         => out.latestGrowth = Or(out.monthlyData[i].growth, Zero)

\* What a view makes of a list of records.
ResultOf(name, txs) ==
  CASE name = "TransactionMetrics" -> TransactionMetrics(txs)
    [] name = "MonthlyVolumeTrends" -> MonthlyVolumeTrends(txs)
    [] name = "TransactionVelocity" -> TransactionVelocity(txs)
    [] name = "ProcessingEfficiency" -> ProcessingEfficiency(txs)
    [] name = "ValueSegmentation" -> ValueSegmentation(txs)
    [] name = "CurrencyDistributionChart" -> CurrencyDistributionChart(txs)
    [] name = "WeekdayAnalysis" -> WeekdayAnalysis(txs)
    [] name = "ExchangeRateAnalysis" -> ExchangeRateAnalysis(txs)
    [] name = "TransactionChart" -> TransactionChart(txs)
    [] name = "ProcessingTimeMetrics" -> ProcessingTimeMetrics(txs)

\* C17: a refresh touches the loading flag and its timer only.  The text
\* and, once App has run, the list handed to the views never change; a
\* step that raises or lowers the flag leaves the last view and its result
\* as they were; and a view's result while a refresh is under way is what
\* the view makes of that same list.
C17_RefreshLeavesData ==
  /\ [](isLoading \/ timeouts > 0 =>
          /\ transactions = parseTransactions(rawTransactionData)
          /\ view # "none" => out = ResultOf(view, transactions))
  /\ [][/\ rawTransactionData' = rawTransactionData
        /\ rendered => transactions' = transactions
        /\ (isLoading' # isLoading \/ timeouts' # timeouts) =>
             UNCHANGED <<rendered, view, out>>]_vars

C17_Witness ==
  /\ isLoading
  /\ timeouts = 1
  /\ view = "TransactionMetrics"
  /\ ~out.threw
  /\ Len(transactions) = 2
  /\ out.metrics.totalTransactions = 2

\* C18: after TransactionVelocity has rendered, the hourly group at each
\* position of sortedHours is the group of the chart label at that
\* position, which is what the tooltip of a bar reads.
C18_OneOrdering ==
  view = "TransactionVelocity" /\ ~out.threw =>
    /\ Len(out.sortedHours) = Len(out.labels)
    /\ \A i \in 1..Len(out.labels) : out.sortedHours[i].key = out.labels[i]

\* The time of the earliest record filed under the day label 'MMM dd'.
DayTime(key) ==
  LET times == {GetTime(parseISO(transactions[i].created)) :
                  i \in {j \in 1..Len(transactions) :
                           Format(parseISO(transactions[j].created), "MMM dd") = key}}
  IN CHOOSE x \in times : \A y \in times : LessEq(x, y)

\* C19: the latest metric of ProcessingTimeMetrics, whose average is shown
\* as 'Current Average', is that of the chronologically most recent day
\* with a valid processing time, and the time change compares it with the
\* chronologically preceding such day (0 when there is none).
C19_CurrentIsMostRecentDay ==
  view = "ProcessingTimeMetrics" /\ ~out.threw =>
    LET valid == out.validMetrics
        latest == out.latestMetric
        before == {j \in 1..Len(valid) : Less(DayTime(valid[j].key), DayTime(latest.key))}
    IN /\ \A j \in 1..Len(valid) : LessEq(DayTime(valid[j].key), DayTime(latest.key))
       /\ IF before = {} THEN out.timeChange = Zero
          ELSE \E p \in before :
                 /\ \A j \in before : LessEq(DayTime(valid[j].key), DayTime(valid[p].key))
                 /\ out.timeChange = Change(latest.avgTime, valid[p].avgTime)

\* The positions of the records filed under a day label, and the day
\* labels of the list.
DayMembers(key) ==
  {i \in 1..Len(transactions) :
     Format(parseISO(transactions[i].created), "MMM dd") = key}

DayLabels ==
  {Format(parseISO(transactions[i].created), "MMM dd") : i \in 1..Len(transactions)}

\* What the chart of ProcessingTimeMetrics shows: the labels and the data
\* points of the component's chart data, and nothing when the component
\* has thrown instead of rendering.
ChartLabels == IF out.threw THEN <<>> ELSE out.labels
ChartData == IF out.threw THEN <<>> ELSE out.data

PaymentsUpTo(k) == {i \in 1..k : transactions[i].type = payment}

\* Math.abs(t.amount)
AbsOfAmount(t) == Abs(t.amount)

\* C21: over a list with a payment, 'Avg Transaction Size' of
\* TransactionMetrics is the sum of abs(amount) over the payment records
\* divided by their number, which is volumeMetrics.averageTicketSize.
C21_AverageOverPayments ==
  /\ view = "TransactionMetrics"
  /\ ~out.threw
  /\ PaymentsUpTo(Len(transactions)) # {}
  => /\ out.metrics.avgTransactionSize =
          Div(SumOver(PaymentsUpTo(Len(transactions)), AbsOfAmount),
              Int2Num(Cardinality(PaymentsUpTo(Len(transactions)))))
     /\ out.metrics.avgTransactionSize = out.volumeMetrics.averageTicketSize

\* The payment records among the first k whose abs(amount) is in a class.
SmallUpTo(k) ==
  {i \in PaymentsUpTo(k) : Less(AbsOfAmount(transactions[i]), Int2Num(10000))}
MediumUpTo(k) ==
  {i \in PaymentsUpTo(k) :
     /\ LessEq(Int2Num(10000), AbsOfAmount(transactions[i]))
     /\ Less(AbsOfAmount(transactions[i]), Int2Num(50000))}
LargeUpTo(k) == (PaymentsUpTo(k) \ SmallUpTo(k)) \ MediumUpTo(k)

\* C24: after every step of the fold of TransactionMetrics the three size
\* counters add up to totalTransactions, which is the number of payment
\* records folded so far; each counter is the number of those payments in
\* its class (below 10000, from 10000 to below 50000, the rest); a record
\* that is not a payment leaves the accumulator as it was; and the
\* accumulator the view shows is the one after the last step.
C24_SizeClassesPartition ==
  /\ rendered =>
       \A k \in 1..Len(transactions) :
         ~SomeInvalidPayment(SubSeq(transactions, 1, k)) =>
           LET Holds(before, acc) ==
                 /\ acc.smallTransactions + acc.mediumTransactions
                      + acc.largeTransactions = acc.totalTransactions
                 /\ acc.totalTransactions = Cardinality(PaymentsUpTo(k))
                 /\ acc.smallTransactions = Cardinality(SmallUpTo(k))
                 /\ acc.mediumTransactions = Cardinality(MediumUpTo(k))
                 /\ acc.largeTransactions = Cardinality(LargeUpTo(k))
                 /\ transactions[k].type # payment => acc = before
           IN Holds(MetricsFold(transactions, k - 1), MetricsFold(transactions, k))
  /\ view = "TransactionMetrics" /\ ~out.threw =>
       out.metrics = MetricsFold(transactions, Len(transactions))

C24_Witness ==
  /\ view = "TransactionMetrics"
  /\ ~out.threw
  /\ Len(transactions) = 2
  /\ transactions[1].type = payment
  /\ transactions[2].type = payout
  /\ out.metrics.mediumTransactions = 1
  /\ out.metrics.smallTransactions = 0
  /\ out.metrics.totalTransactions = 1
  /\ out.metrics.totalVolume = Int2Num(10000)


\* C22: under overlapping clicks of Refresh the loading flag is up for as
\* long as the delay of the most recent click is running: whenever a timer
\* of handleRefresh is pending, after an earlier one has fired too,
\* isLoading is true.
C22_LoadingUntilLastTimer ==
  timeouts > 0 => isLoading

\* C23: isLoading is false at first; only a click raises it; a timer that
\* fires with no other pending leaves it false; and once the clicks have
\* stopped the timers all fire and isLoading is false from then on.
C23_RefreshTerminates ==
  /\ ~isLoading
  /\ [][/\ ~isLoading /\ isLoading' => timeouts' = timeouts + 1
        /\ timeouts' = 0 => ~isLoading']_vars
  /\ <>[][timeouts' <= timeouts]_vars => <>[](~isLoading /\ timeouts = 0)

C23_Witness ==
  /\ rendered
  /\ ~isLoading
  /\ timeouts = 1

\* C25: the processing-time classes of TransactionMetrics, at most 24
\* hours, above 24 and at most 48, above 48, add up to totalTransactions,
\* so that the three shares add up to 100%, also with a payment whose
\* availableOn is missing.
C25_ProcessingClassesPartition ==
  view = "TransactionMetrics" /\ ~out.threw =>
    out.processingTimeDistribution.fast + out.processingTimeDistribution.medium
      + out.processingTimeDistribution.slow = out.metrics.totalTransactions

\* The positions of the payment records with a customer-facing amount that
\* is present and not zero.
RatedPayments ==
  {i \in PaymentsUpTo(Len(transactions)) :
     /\ transactions[i].customerFacingAmount.k = "fin"
     /\ ~IsZero(transactions[i].customerFacingAmount)}

\* abs(amount / customerFacingAmount) of the record at position i
RateOf(i) == Abs(Div(transactions[i].amount, transactions[i].customerFacingAmount))

\* C26: minExchangeRate and maxExchangeRate of TransactionMetrics are the
\* least and the greatest rate of the payments with a customer-facing
\* amount that is not zero, in whatever order the records come and also
\* when a rate is 0.
C26_TrueMinAndMax ==
  view = "TransactionMetrics" /\ ~out.threw /\ RatedPayments # {} =>
    /\ \E i \in RatedPayments : out.metrics.minExchangeRate = RateOf(i)
    /\ \A i \in RatedPayments : LessEq(out.metrics.minExchangeRate, RateOf(i))
    /\ \E i \in RatedPayments : out.metrics.maxExchangeRate = RateOf(i)
    /\ \A i \in RatedPayments : LessEq(RateOf(i), out.metrics.maxExchangeRate)

\* C27: with a payment whose customer-facing amount is not zero, the
\* volume-weighted exchange rate of TransactionMetrics lies between
\* minExchangeRate and maxExchangeRate, negative customer-facing amounts
\* included.
C27_WeightedRateWithinRange ==
  view = "TransactionMetrics" /\ ~out.threw /\ RatedPayments # {} =>
    /\ LessEq(out.metrics.minExchangeRate, out.volumeWeightedExchangeRate)
    /\ LessEq(out.volumeWeightedExchangeRate, out.metrics.maxExchangeRate)

====
